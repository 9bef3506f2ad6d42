----------------------------- MODULE AddrSpace ------------------------------
(***************************************************************************)
(* Address spaces of user programs (class AddrSpace), the map of physical  *)
(* pages they share (kernel->gPhysPageBitMap, class Bitmap) and the        *)
(* translation the machine applies to user accesses (Machine::Translate).  *)
(*                                                                         *)
(* Memory is an array of cells, PageSize of them to a page.  A cell holds  *)
(* Zero, a byte <<p, x>> of the executable of program p (x is its offset   *)
(* from the code segment in the file), or <<p, Stored>>, written by p when *)
(* it ran.  The constructor holds addrLock while it allocates and loads,   *)
(* and nothing in it or in the destructor lets another thread run, so each *)
(* is one action.                                                          *)
(***************************************************************************)
EXTENDS Integers, FiniteSets

CONSTANTS Proc,          \* the processes, each running its own program
          NumPhysPages,  \* machine.h
          BitmapSize,    \* the argument of new Bitmap(...) in kernel.cc
          PageSize,      \* machine.h, in cells
          Noff           \* Noff[p]: what the NOFF header of p's file says

(* size: code + data + bss + stack, in cells; file: the length of the      *)
(* file after the start of the code; data, dataIn, dataSize: the address,  *)
(* the place in the file and the size of the initialised data.             *)
ASSUME AddrSpaceAssumption ==
    /\ NumPhysPages \in Nat /\ BitmapSize \in Nat /\ PageSize \in Nat \ {0}
    /\ Noff \in [Proc -> [size : Nat, file : Nat, data : Nat, dataIn : Nat,
                          dataSize : Nat]]

(* Initialised data lies as far behind the code in the file as it does in  *)
(* memory, and the file is no longer than the program: the layout that the *)
(* tool coff2noff gives to executables.                                    *)
ASSUME LayoutAssumption ==
    \A p \in Proc : Noff[p].dataSize > 0 =>
        Noff[p].dataIn = Noff[p].data /\ Noff[p].file <= Noff[p].size

VARIABLES bitmap,     \* the marked bits of gPhysPageBitMap
          pageTable,  \* pageTable[p][i]: the physicalPage of page i of p
          numPages,   \* AddrSpace::numPages
          running,    \* the processes with an address space
          mainMemory, \* Machine::mainMemory
          private,    \* what each program should find in its memory
          machine,    \* "up", "halted", "aborted" (ASSERT) or "corrupt"
          scattered   \* the programs with initialised data that were given
                      \* pages that are not neighbours (history)

vars == <<bitmap, pageTable, numPages, running, mainMemory, private, machine,
          scattered>>

Frame == 0 .. BitmapSize - 1
Cell == 0 .. NumPhysPages * PageSize - 1
Zero == <<"zero">>
Stored == -1
NoTable == << >>

(* The pages of a program of that size: divRoundUp(size, PageSize).        *)
Pages(p) == (Noff[p].size + PageSize - 1) \div PageSize

Init ==
    /\ bitmap = {}
    /\ pageTable = [p \in Proc |-> NoTable]
    /\ numPages = [p \in Proc |-> 0]
    /\ running = {}
    /\ mainMemory = [a \in Cell |-> Zero]
    /\ private = [p \in Proc |-> NoTable]
    /\ machine = "up"
    /\ scattered = {}
-----------------------------------------------------------------------------
(* Definitions named Wrong... are plausible mistakes in the definition that *)
(* follows them; they are used only to show that the properties below      *)
(* notice them.                                                            *)

(* f is what n calls of Bitmap::FindAndSet return: each time the first bit *)
(* that is clear and was not returned before.                              *)
FindAndSet(n, f) ==
    \A i \in 0 .. n - 1 :
        /\ \A j \in 0 .. i - 1 : f[j] # f[i]
        /\ \A g \in Frame \ bitmap : g < f[i] => \E j \in 0 .. i - 1 : f[j] = g

(* The cell a of a page: its page number and its place in the page.        *)
PageOf(a) == a \div PageSize
Offset(a) == a % PageSize

(* Loading without bzero.                                                  *)
WrongCodeLoop(p, v, a) == IF v < Noff[p].file THEN <<p, v>> ELSE mainMemory[a]

(* bzero of every page, then the code loop copies the file to the pages    *)
(* one by one: cell a of the memory, which is cell v of the program, gets  *)
(* what the file has there, if it is long enough.                          *)
CodeLoop(p, v, a) == IF v < Noff[p].file THEN <<p, v>> ELSE Zero

(* Step i of the initialised-data loop copies up to a page of the file to  *)
(* the cells from data + f[i] * PageSize on.  Does it reach cell a?        *)
DataStep(p, f, i, a) ==
    LET k == a - (Noff[p].data + f[i] * PageSize) IN
    /\ Noff[p].dataSize > 0
    /\ k \in 0 .. PageSize - 1
    /\ Noff[p].dataIn + i * PageSize + k < Noff[p].file

(* The memory after the two loops.                                         *)
Loaded(p, n, f) ==
    [a \in Cell |->
       IF \E i \in 0 .. n - 1 : DataStep(p, f, i, a)
       THEN LET i == CHOOSE j \in 0 .. n - 1 : DataStep(p, f, j, a) IN
            <<p, Noff[p].dataIn + i * PageSize
                   + (a - (Noff[p].data + f[i] * PageSize))>>
       ELSE IF \E i \in 0 .. n - 1 : f[i] = PageOf(a)
       THEN LET i == CHOOSE j \in 0 .. n - 1 : f[j] = PageOf(a) IN
            CodeLoop(p, i * PageSize + Offset(a), a)
       ELSE mainMemory[a]]

(* The loops or bzero write behind the end of mainMemory.                  *)
WritesOutside(p, n, f) ==
    \/ \E i \in 0 .. n - 1 : f[i] >= NumPhysPages
    \/ \E i \in 0 .. n - 1 : \E k \in 0 .. PageSize - 1 :
          LET a == Noff[p].data + f[i] * PageSize + k IN
          a \notin Cell /\ DataStep(p, f, i, a)

(* Initialised data is loaded into pages that are not neighbours.          *)
Scatters(p, n, f) ==
    Noff[p].dataSize > 0 /\ \E i \in 0 .. n - 1 : f[i] # f[0] + i

(* What a program expects to find: its file, and zeros behind it.          *)
Image(p, v) == IF v < Noff[p].file THEN <<p, v>> ELSE Zero

(* AddrSpace::AddrSpace for a program that fits in the clear bits.         *)
Create(p) ==
    /\ machine = "up" /\ p \notin running
    /\ LET n == Pages(p) IN
       /\ n <= NumPhysPages
       /\ n <= Cardinality(Frame \ bitmap)
       /\ \E f \in [0 .. n - 1 -> Frame \ bitmap] :
             /\ FindAndSet(n, f)
             /\ bitmap' = bitmap \cup {f[i] : i \in 0 .. n - 1}
             /\ pageTable' = [pageTable EXCEPT ![p] = f]
             /\ mainMemory' = Loaded(p, n, f)
             /\ machine' = IF WritesOutside(p, n, f) THEN "corrupt" ELSE "up"
             /\ scattered' = IF Scatters(p, n, f) THEN scattered \cup {p} ELSE scattered
       /\ numPages' = [numPages EXCEPT ![p] = n]
       /\ private' = [private EXCEPT
             ![p] = [v \in 0 .. n * PageSize - 1 |-> Image(p, v)]]
    /\ running' = running \cup {p}

(* The constructor finds too few clear bits: the address space has no      *)
(* pages, and the program is started all the same.                         *)
CreateEmpty(p) ==
    /\ machine = "up" /\ p \notin running
    /\ Pages(p) <= NumPhysPages
    /\ Pages(p) > Cardinality(Frame \ bitmap)
    /\ numPages' = [numPages EXCEPT ![p] = 0]
    /\ running' = running \cup {p}
    /\ UNCHANGED <<bitmap, pageTable, mainMemory, private, machine, scattered>>

(* ASSERT(numPages <= NumPhysPages) in the constructor.                    *)
CreateTooBig(p) ==
    /\ machine = "up" /\ p \notin running
    /\ Pages(p) > NumPhysPages
    /\ machine' = "aborted"
    /\ UNCHANGED <<bitmap, pageTable, numPages, running, mainMemory, private,
                   scattered>>

(* A destructor that stops one page too early.                             *)
WrongDestroy(p) ==
    /\ machine = "up" /\ p \in running /\ numPages[p] > 0
    /\ bitmap' = bitmap \ {pageTable[p][i] : i \in 0 .. numPages[p] - 2}
    /\ pageTable' = [pageTable EXCEPT ![p] = NoTable]
    /\ private' = [private EXCEPT ![p] = NoTable]
    /\ numPages' = [numPages EXCEPT ![p] = 0]
    /\ running' = running \ {p}
    /\ UNCHANGED <<mainMemory, machine, scattered>>

(* Thread::FreeSpace when a process exits: ~AddrSpace clears the bits.  (A *)
(* program without pages never gets to its Exit, see Access.)              *)
Destroy(p) ==
    /\ machine = "up" /\ p \in running /\ numPages[p] > 0
    /\ bitmap' = bitmap \ {pageTable[p][i] : i \in 0 .. numPages[p] - 1}
    /\ pageTable' = [pageTable EXCEPT ![p] = NoTable]
    /\ private' = [private EXCEPT ![p] = NoTable]
    /\ numPages' = [numPages EXCEPT ![p] = 0]
    /\ running' = running \ {p}
    /\ UNCHANGED <<mainMemory, machine, scattered>>

(* Machine::Translate with the page table RestoreState installed.          *)
Translate(p, v) ==
    IF PageOf(v) >= numPages[p] THEN "AddressErrorException"
    ELSE IF pageTable[p][PageOf(v)] >= NumPhysPages THEN "BusErrorException"
    ELSE "NoException"
PhysAddr(p, v) == pageTable[p][PageOf(v)] * PageSize + Offset(v)

(* A store of the running program, through Machine::WriteMem.              *)
Write(p, v) ==
    /\ machine = "up" /\ p \in running
    /\ Translate(p, v) = "NoException"
    /\ mainMemory' = [mainMemory EXCEPT ![PhysAddr(p, v)] = <<p, Stored>>]
    /\ private' = [private EXCEPT ![p][v] = <<p, Stored>>]
    /\ UNCHANGED <<bitmap, pageTable, numPages, running, machine, scattered>>

(* An access that cannot be translated: ExceptionHandler halts the machine *)
(* for all programs.  The first instruction fetch of a program without     *)
(* pages is one.                                                           *)
Access(p, v) ==
    /\ machine = "up" /\ p \in running
    /\ Translate(p, v) # "NoException"
    /\ machine' = "halted"
    /\ UNCHANGED <<bitmap, pageTable, numPages, running, mainMemory, private,
                   scattered>>

(* The addresses programs use: one page more than any of them has.         *)
VAddr == 0 .. (NumPhysPages + 1) * PageSize - 1

Next ==
    \E p \in Proc :
        \/ Create(p) \/ CreateEmpty(p) \/ CreateTooBig(p) \/ Destroy(p)
        \/ \E v \in VAddr : Write(p, v) \/ Access(p, v)

Spec == Init /\ [][Next]_vars
-----------------------------------------------------------------------------
FramesOf(p) == {pageTable[p][i] : i \in 0 .. numPages[p] - 1}

(* Types.                                                                  *)
TypeOK ==
    /\ bitmap \subseteq Frame
    /\ running \subseteq Proc
    /\ numPages \in [Proc -> Nat]
    /\ DOMAIN pageTable = Proc
    /\ \A p \in Proc : numPages[p] > 0 =>
          pageTable[p] \in [0 .. numPages[p] - 1 -> Frame]
    /\ DOMAIN mainMemory = Cell
    /\ machine \in {"up", "halted", "aborted", "corrupt"}
    /\ scattered \subseteq Proc

(* The map of physical pages is exact however programs come and go: a bit  *)
(* is marked just when a running program has that page, no page is given   *)
(* to two programs or twice to one, and none is lost.                      *)
FramesExclusive ==
    /\ bitmap = UNION {FramesOf(p) : p \in running}
    /\ \A p, q \in running : p # q => FramesOf(p) \cap FramesOf(q) = {}
    /\ \A p \in running : \A i, j \in 0 .. numPages[p] - 1 :
          pageTable[p][i] = pageTable[p][j] => i = j

(* Each program finds its own memory through its page table: its code and  *)
(* data as in the file, zeros behind them, and what it stored itself; no   *)
(* other program's loading, stores or leftovers show.  The loop for the    *)
(* initialised data adds i pages to the physical and not to the virtual    *)
(* address, so all this ends when a program with such data gets pages that *)
(* are not neighbours.                                                     *)
PrivateMemory ==
    machine \in {"up", "halted"} /\ scattered = {} =>
        \A p \in running : \A v \in 0 .. numPages[p] * PageSize - 1 :
            mainMemory[PhysAddr(p, v)] = private[p][v]
=============================================================================
