---------------------------- MODULE UserProofs ------------------------------
(***************************************************************************)
(* Proofs about what the kernel keeps for user programs.                   *)
(*                                                                         *)
(* AddrSpace: the map of physical pages is exact, for any memory size, any *)
(* length of the bit map, any page size and any programs; and memory is    *)
(* private, as long as PrivateMemory promises it, for programs laid out by *)
(* coff2noff.                                                              *)
(*                                                                         *)
(* SemTable, for any number of processes, names and entries:               *)
(* OneEntryPerName, UnitsConserved and WaitsAreCovered.                    *)
(*                                                                         *)
(* Mips, for any program and any width of a byte: TrapsArePrecise.         *)
(***************************************************************************)
EXTENDS AddrSpace, SemTable, Mips, TLAPS

(* Page i of p, and the pages p has.                                       *)
Has(p, x) == \E i \in 0 .. numPages[p] - 1 : pageTable[p][i] = x

(* FramesExclusive, element by element.                                    *)
Exact ==
    /\ \A x \in bitmap : \E p \in running : Has(p, x)
    /\ \A p \in running : \A x : Has(p, x) => x \in bitmap
    /\ \A p, q \in running : \A x : Has(p, x) /\ Has(q, x) => p = q
    /\ \A p \in running : \A i, j \in 0 .. numPages[p] - 1 :
          pageTable[p][i] = pageTable[p][j] => i = j

IInv == TypeOK /\ Exact

(* The two forms of the property agree.                                    *)
LEMMA ExactIsExclusive == Exact <=> FramesExclusive
<1>1. \A p : \A x : x \in FramesOf(p) <=> Has(p, x)
  BY DEF FramesOf, Has
<1>2. ASSUME Exact PROVE FramesExclusive
  <2>1. bitmap = UNION {FramesOf(p) : p \in running}
    BY <1>1, <1>2 DEF Exact
  <2>2. \A p, q \in running : p # q => FramesOf(p) \cap FramesOf(q) = {}
    BY <1>1, <1>2, Zenon DEF Exact
  <2> QED BY <1>2, <2>1, <2>2, Zenon DEF Exact, FramesExclusive
<1>3. ASSUME FramesExclusive PROVE Exact
  <2>1. \A x \in bitmap : \E p \in running : Has(p, x)
    BY <1>1, <1>3, Zenon DEF FramesExclusive
  <2>2. \A p \in running : \A x : Has(p, x) => x \in bitmap
    BY <1>1, <1>3, Zenon DEF FramesExclusive
  <2>3. \A p, q \in running : \A x : Has(p, x) /\ Has(q, x) => p = q
    BY <1>1, <1>3, Zenon DEF FramesExclusive
  <2> QED BY <1>3, <2>1, <2>2, <2>3, Zenon DEF FramesExclusive, Exact
<1> QED BY <1>2, <1>3

(* At boot no program is loaded and no bit is set.                         *)
LEMMA InitIInv == Init => IInv
<1> SUFFICES ASSUME Init PROVE IInv
  OBVIOUS
<1>1. TypeOK
  BY AddrSpaceAssumption DEF Init, TypeOK
<1>2. Exact
  BY DEF Init, Exact
<1> QED BY <1>1, <1>2, Zenon DEF IInv

(* divRoundUp gives a number of pages.                                     *)
LEMMA PagesNat == ASSUME NEW p \in Proc PROVE Pages(p) \in Nat
BY AddrSpaceAssumption DEF Pages

(* The constructor takes clear bits, each of them once.                    *)
LEMMA CreateStep ==
    ASSUME IInv, NEW p \in Proc, Create(p)
    PROVE  IInv'
<1> DEFINE n == Pages(p)
<1>0. TypeOK /\ Exact /\ n \in Nat /\ p \notin running
  BY PagesNat, Zenon DEF IInv, Create
<1>1. PICK f \in [0 .. n - 1 -> Frame \ bitmap] :
          /\ FindAndSet(n, f)
          /\ bitmap' = bitmap \cup {f[i] : i \in 0 .. n - 1}
          /\ pageTable' = [pageTable EXCEPT ![p] = f]
          /\ mainMemory' = Loaded(p, n, f)
          /\ machine' = IF WritesOutside(p, n, f) THEN "corrupt" ELSE "up"
          /\ scattered' = IF Scatters(p, n, f) THEN scattered \cup {p} ELSE scattered
  BY Zenon DEF Create
<1>2. numPages' = [numPages EXCEPT ![p] = n] /\ running' = running \cup {p}
  BY Zenon DEF Create
<1>3. \A i, j \in 0 .. n - 1 : f[i] = f[j] => i = j
  <2> SUFFICES ASSUME NEW i \in 0 .. n - 1, NEW j \in 0 .. n - 1, i < j
               PROVE  f[i] # f[j]
    BY <1>0
  <2>1. i \in 0 .. j - 1
    BY <1>0
  <2> QED BY <1>1, <2>1, Zenon DEF FindAndSet
<1> HIDE DEF n
<1>4. TypeOK'
  <2>1. DOMAIN mainMemory' = Cell
    BY <1>1, Zenon DEF Loaded
  <2>2. bitmap' \subseteq Frame
    BY <1>0, <1>1 DEF TypeOK
  <2>3. /\ numPages' \in [Proc -> Nat] /\ running' \subseteq Proc
        /\ DOMAIN pageTable' = Proc
    BY <1>0, <1>1, <1>2, Zenon DEF TypeOK
  <2>4. ASSUME NEW q \in Proc, numPages'[q] > 0
        PROVE  pageTable'[q] \in [0 .. numPages'[q] - 1 -> Frame]
    BY <1>0, <1>1, <1>2, <2>4 DEF TypeOK
  <2>5. machine' \in {"up", "halted", "aborted", "corrupt"} /\ scattered' \subseteq Proc
    BY <1>0, <1>1 DEF TypeOK
  <2> QED BY <2>1, <2>2, <2>3, <2>4, <2>5, Zenon DEF TypeOK
<1>5. /\ \A q \in running : \A x : Has(q, x)' <=> Has(q, x)
      /\ \A x : Has(p, x)' <=> \E i \in 0 .. n - 1 : f[i] = x
  BY <1>0, <1>1, <1>2 DEF Has, TypeOK
<1>6. Exact'
  <2>1. \A x \in bitmap' : \E q \in running' : Has(q, x)'
    BY <1>0, <1>1, <1>2, <1>5 DEF Exact
  <2>2. \A q \in running' : \A x : Has(q, x)' => x \in bitmap'
    BY <1>0, <1>1, <1>2, <1>5 DEF Exact
  <2>3. \A q, r \in running' : \A x : Has(q, x)' /\ Has(r, x)' => q = r
    <3>1. \A x : Has(p, x)' => x \notin bitmap
      BY <1>1, <1>5
    <3> QED BY <1>0, <1>2, <1>5, <3>1 DEF Exact
  <2>4. \A q \in running' : \A i, j \in 0 .. numPages'[q] - 1 :
            pageTable'[q][i] = pageTable'[q][j] => i = j
    BY <1>0, <1>1, <1>2, <1>3 DEF Exact, TypeOK
  <2> QED BY <2>1, <2>2, <2>3, <2>4, Zenon DEF Exact
<1> QED BY <1>4, <1>6 DEF IInv

(* The constructor that finds too little memory takes none.                *)
LEMMA CreateEmptyStep ==
    ASSUME IInv, NEW p \in Proc, CreateEmpty(p)
    PROVE  IInv'
<1>0. TypeOK /\ Exact /\ p \notin running
  BY DEF IInv, CreateEmpty
<1>1. /\ numPages' = [numPages EXCEPT ![p] = 0] /\ running' = running \cup {p}
      /\ UNCHANGED <<bitmap, pageTable, mainMemory, machine, scattered>>
  BY DEF CreateEmpty
<1>2. TypeOK'
  BY <1>0, <1>1 DEF TypeOK
<1>3. /\ \A q \in running : \A x : Has(q, x)' <=> Has(q, x)
      /\ \A x : ~Has(p, x)'
  BY <1>0, <1>1 DEF Has, TypeOK
<1>4. \A q \in running' : \A i, j \in 0 .. numPages'[q] - 1 :
          pageTable'[q][i] = pageTable'[q][j] => i = j
  BY <1>0, <1>1 DEF Exact, TypeOK
<1>5. Exact'
  BY <1>0, <1>1, <1>3, <1>4 DEF Exact
<1> QED BY <1>2, <1>5 DEF IInv

(* The destructor clears the bits of its own pages and of no other.        *)
LEMMA DestroyStep ==
    ASSUME IInv, NEW p \in Proc, Destroy(p)
    PROVE  IInv'
<1>0. TypeOK /\ Exact /\ p \in running
  BY DEF IInv, Destroy
<1>1. /\ bitmap' = bitmap \ {pageTable[p][i] : i \in 0 .. numPages[p] - 1}
      /\ pageTable' = [pageTable EXCEPT ![p] = NoTable]
      /\ numPages' = [numPages EXCEPT ![p] = 0]
      /\ running' = running \ {p}
      /\ UNCHANGED <<mainMemory, machine, scattered>>
  BY DEF Destroy
<1>2. TypeOK'
  BY <1>0, <1>1 DEF TypeOK
<1>3. \A q \in running' : \A x : Has(q, x)' <=> Has(q, x)
  BY <1>0, <1>1 DEF Has, TypeOK
<1>4. \A x : x \in bitmap' <=> x \in bitmap /\ ~Has(p, x)
  BY <1>1 DEF Has
<1>5. \A q \in running' : \A i, j \in 0 .. numPages'[q] - 1 :
          pageTable'[q][i] = pageTable'[q][j] => i = j
  BY <1>0, <1>1 DEF Exact, TypeOK
<1>6. Exact'
  BY <1>0, <1>1, <1>3, <1>4, <1>5 DEF Exact
<1> QED BY <1>2, <1>6 DEF IInv

(* The other steps leave the page tables and the bit map alone.            *)
LEMMA ExactKept ==
    ASSUME Exact, UNCHANGED <<bitmap, pageTable, numPages, running>>
    PROVE  Exact'
<1>1. \A p : \A x : Has(p, x)' <=> Has(p, x)
  BY DEF Has
<1> QED BY <1>1 DEF Exact

(* The inductive invariant: the types, and the exact map of pages.         *)
LEMMA Invariance == Spec => []IInv
<1>1. IInv /\ [Next]_vars => IInv'
  <2> SUFFICES ASSUME IInv, [Next]_vars PROVE IInv'
    OBVIOUS
  <2>1. ASSUME NEW p \in Proc, CreateTooBig(p) PROVE IInv'
    BY <2>1, ExactKept DEF CreateTooBig, IInv, TypeOK
  <2>2. ASSUME NEW p \in Proc, NEW v \in VAddr, Write(p, v) PROVE IInv'
    BY <2>2, ExactKept DEF Write, IInv, TypeOK
  <2>3. ASSUME NEW p \in Proc, NEW v \in VAddr, Access(p, v) PROVE IInv'
    BY <2>3, ExactKept DEF Access, IInv, TypeOK
  <2>4. CASE UNCHANGED vars
    BY <2>4, ExactKept DEF vars, IInv, TypeOK
  <2> QED BY <2>1, <2>2, <2>3, <2>4, CreateStep, CreateEmptyStep, DestroyStep
          DEF Next
<1> QED BY <1>1, InitIInv, PTL DEF Spec

(* Every variable keeps its type; in particular a process with pages has a *)
(* page table for all of them.                                             *)
THEOREM TypeCorrect == Spec => []TypeOK
BY Invariance, PTL DEF IInv

(* However programs are loaded and removed, a physical page belongs to at  *)
(* most one running program, and its bit is marked exactly while it does.  *)
THEOREM PagesAreExclusive == Spec => []FramesExclusive
<1>1. IInv => FramesExclusive
  BY ExactIsExclusive DEF IInv
<1> QED BY <1>1, Invariance, PTL
-----------------------------------------------------------------------------
(* Memory.  A page table that is in use leads to cells of the memory, what *)
(* is kept for a program covers its pages, and the two agree.              *)
InMemory ==
    machine # "corrupt" =>
        \A p \in running : \A i \in 0 .. numPages[p] - 1 :
            pageTable[p][i] < NumPhysPages

Covered ==
    /\ DOMAIN private = Proc
    /\ \A p \in running : numPages[p] > 0 =>
          DOMAIN private[p] = 0 .. numPages[p] * PageSize - 1

MInv == InMemory /\ Covered /\ PrivateMemory

(* Cells of pages.                                                         *)
LEMMA CellsNat ==
    ASSUME NEW x \in Nat, NEW y \in Nat
    PROVE  /\ x * PageSize \in Nat
           /\ (x + y) * PageSize = x * PageSize + y * PageSize
<1>1. PageSize \in Nat
  BY AddrSpaceAssumption
<1> QED BY <1>1

(* Division by the page size.                                              *)
LEMMA PageSplit ==
    ASSUME NEW v \in Nat
    PROVE  /\ PageOf(v) \in Nat /\ Offset(v) \in 0 .. PageSize - 1
           /\ v = PageOf(v) * PageSize + Offset(v)
BY AddrSpaceAssumption DEF PageOf, Offset

(* A page and a place in it are determined by the cell.                    *)
LEMMA PageUnique ==
    ASSUME NEW x \in Nat, NEW y \in Nat,
           NEW k \in 0 .. PageSize - 1, NEW l \in 0 .. PageSize - 1,
           x * PageSize + k = y * PageSize + l
    PROVE  x = y /\ k = l
<1>0. PageSize \in Nat \ {0}
  BY AddrSpaceAssumption
<1>1. ASSUME NEW b \in Nat, NEW c \in Nat, b < c
      PROVE  b * PageSize + PageSize <= c * PageSize
  <2>1. (c - (b + 1)) * PageSize >= 0
    BY <1>0, <1>1
  <2> QED BY <1>0, <2>1
<1>2. ~(x < y)
  BY <1>0, <1>1
<1>3. ~(y < x)
  BY <1>0, <1>1
<1>4. x = y
  BY <1>2, <1>3
<1> QED BY <1>0, <1>4

(* The page of a cell that is given by its page and its place.             *)
LEMMA PageOfCell ==
    ASSUME NEW x \in Nat, NEW k \in 0 .. PageSize - 1
    PROVE  /\ x * PageSize + k \in Nat
           /\ PageOf(x * PageSize + k) = x /\ Offset(x * PageSize + k) = k
<1>1. x * PageSize + k \in Nat
  BY AddrSpaceAssumption
<1>2. /\ PageOf(x * PageSize + k) \in Nat
      /\ Offset(x * PageSize + k) \in 0 .. PageSize - 1
      /\ x * PageSize + k = PageOf(x * PageSize + k) * PageSize + Offset(x * PageSize + k)
  BY <1>1, PageSplit
<1> QED BY <1>1, <1>2, PageUnique

(* The cells of n pages are those whose page is one of the first n.        *)
LEMMA PageBound ==
    ASSUME NEW n \in Nat, NEW v \in Nat
    PROVE  v < n * PageSize <=> PageOf(v) < n
<1>0. /\ PageSize \in Nat \ {0} /\ PageOf(v) \in Nat /\ Offset(v) \in 0 .. PageSize - 1
      /\ v = PageOf(v) * PageSize + Offset(v)
  BY AddrSpaceAssumption, PageSplit
<1>1. ASSUME PageOf(v) < n PROVE v < n * PageSize
  <2>1. (n - (PageOf(v) + 1)) * PageSize >= 0
    BY <1>0, <1>1
  <2> QED BY <1>0, <2>1
<1>2. ASSUME PageOf(v) >= n PROVE v >= n * PageSize
  <2>1. (PageOf(v) - n) * PageSize >= 0
    BY <1>0, <1>2
  <2> QED BY <1>0, <2>1
<1> QED BY <1>0, <1>1, <1>2

(* The pages of a program hold all of it.                                  *)
LEMMA PagesHold ==
    ASSUME NEW p \in Proc
    PROVE  Noff[p].size <= Pages(p) * PageSize
<1> DEFINE w == Noff[p].size + PageSize - 1
<1>1. Noff[p].size \in Nat /\ PageSize \in Nat \ {0} /\ w \in Nat
  BY AddrSpaceAssumption
<1>2. /\ PageOf(w) \in Nat /\ Offset(w) \in 0 .. PageSize - 1
      /\ w = PageOf(w) * PageSize + Offset(w)
  BY <1>1, PageSplit
<1>3. Pages(p) = PageOf(w)
  BY DEF Pages, PageOf
<1>4. PageOf(w) * PageSize \in Nat
  BY <1>1, <1>2
<1> QED BY <1>1, <1>2, <1>3, <1>4

(* The cell a table of n pages leads to.                                   *)
LEMMA TableCell ==
    ASSUME NEW n \in Nat, NEW v \in 0 .. n * PageSize - 1,
           NEW t \in [0 .. n - 1 -> Frame],
           \A i \in 0 .. n - 1 : t[i] < NumPhysPages
    PROVE  LET a == t[PageOf(v)] * PageSize + Offset(v)
           IN  /\ PageOf(v) \in 0 .. n - 1 /\ Offset(v) \in 0 .. PageSize - 1
               /\ a \in Cell /\ PageOf(a) = t[PageOf(v)] /\ Offset(a) = Offset(v)
<1> DEFINE a == t[PageOf(v)] * PageSize + Offset(v)
<1>1. v \in Nat /\ n * PageSize \in Nat
  BY CellsNat
<1>2. PageOf(v) \in 0 .. n - 1 /\ Offset(v) \in 0 .. PageSize - 1
  BY <1>1, PageBound, PageSplit, SMTT(30)
<1>3. t[PageOf(v)] \in Nat /\ t[PageOf(v)] < NumPhysPages
  BY <1>2 DEF Frame
<1>4. a \in Nat /\ PageOf(a) = t[PageOf(v)] /\ Offset(a) = Offset(v)
  BY <1>2, <1>3, PageOfCell
<1> HIDE DEF a
<1>5. a < NumPhysPages * PageSize
  BY <1>3, <1>4, PageBound, AddrSpaceAssumption, Zenon
<1>6. a \in Cell
  BY <1>4, <1>5, CellsNat, AddrSpaceAssumption DEF Cell
<1> QED BY <1>2, <1>4, <1>6 DEF a

(* The cells the page table of a program leads to, one for each of its     *)
(* addresses: in the memory, and in one of its pages.                      *)
LEMMA PhysCell ==
    ASSUME TypeOK, InMemory, machine # "corrupt", NEW p \in running,
           NEW v \in 0 .. numPages[p] * PageSize - 1
    PROVE  /\ PageOf(v) \in 0 .. numPages[p] - 1 /\ Offset(v) \in 0 .. PageSize - 1
           /\ PhysAddr(p, v) \in Cell
           /\ PageOf(PhysAddr(p, v)) = pageTable[p][PageOf(v)]
           /\ Offset(PhysAddr(p, v)) = Offset(v)
<1>1. p \in Proc /\ numPages[p] \in Nat
  BY DEF TypeOK
<1>2. numPages[p] > 0
  <2>1. 0 * PageSize = 0
    BY AddrSpaceAssumption
  <2> QED BY <1>1, <2>1
<1>3. /\ pageTable[p] \in [0 .. numPages[p] - 1 -> Frame]
      /\ \A i \in 0 .. numPages[p] - 1 : pageTable[p][i] < NumPhysPages
  BY <1>1, <1>2 DEF TypeOK, InMemory
<1> QED BY <1>1, <1>3, TableCell, Zenon DEF PhysAddr

(* Two addresses lead to one cell only if they are the same address of the *)
(* same program.                                                           *)
LEMMA PhysUnique ==
    ASSUME IInv, InMemory, machine # "corrupt",
           NEW p \in running, NEW v \in 0 .. numPages[p] * PageSize - 1,
           NEW q \in running, NEW w \in 0 .. numPages[q] * PageSize - 1,
           PhysAddr(p, v) = PhysAddr(q, w)
    PROVE  p = q /\ v = w
<1>0. TypeOK /\ Exact
  BY DEF IInv
<1>1. /\ PageOf(v) \in 0 .. numPages[p] - 1 /\ PageOf(w) \in 0 .. numPages[q] - 1
      /\ pageTable[p][PageOf(v)] = pageTable[q][PageOf(w)]
      /\ Offset(v) = Offset(w)
  BY <1>0, PhysCell
<1>2. p = q
  BY <1>0, <1>1, SMTT(30) DEF Exact, Has
<1>3. PageOf(v) = PageOf(w)
  BY <1>0, <1>1, <1>2 DEF Exact
<1>4. numPages[p] * PageSize \in Nat /\ numPages[q] * PageSize \in Nat
  BY <1>0, CellsNat, Zenon DEF TypeOK
<1>5. v = PageOf(v) * PageSize + Offset(v) /\ w = PageOf(w) * PageSize + Offset(w)
  BY <1>4, PageSplit
<1> QED BY <1>1, <1>2, <1>3, <1>5

(* A store changes one cell, and what the storing program should find at   *)
(* one address.                                                            *)
LEMMA WriteMemory ==
    ASSUME IInv, MInv, NEW p \in Proc, NEW v \in VAddr, Write(p, v)
    PROVE  MInv'
<1>0. /\ TypeOK /\ InMemory /\ Covered /\ PrivateMemory
      /\ p \in running /\ machine = "up" /\ Translate(p, v) = "NoException"
      /\ mainMemory' = [mainMemory EXCEPT ![PhysAddr(p, v)] = <<p, Stored>>]
      /\ private' = [private EXCEPT ![p][v] = <<p, Stored>>]
      /\ UNCHANGED <<bitmap, pageTable, numPages, running, machine, scattered>>
  BY DEF IInv, MInv, Write
<1>1. v \in 0 .. numPages[p] * PageSize - 1
  <2>1. v \in Nat /\ numPages[p] \in Nat /\ numPages[p] * PageSize \in Nat
    BY <1>0, AddrSpaceAssumption, SMTT(30) DEF VAddr, TypeOK
  <2>2. PageOf(v) < numPages[p]
    BY <1>0, <2>1, PageSplit DEF Translate
  <2> QED BY <2>1, <2>2, PageBound
<1>2. InMemory'
  BY <1>0 DEF InMemory
<1>3. Covered'
  BY <1>0 DEF Covered, TypeOK
<1>4. ASSUME scattered = {}, NEW q \in running,
             NEW w \in 0 .. numPages[q] * PageSize - 1
      PROVE  mainMemory'[PhysAddr(q, w)] = private'[q][w]
  <2>1. PhysAddr(q, w) \in Cell /\ PhysAddr(p, v) \in Cell
    BY <1>0, <1>1, PhysCell
  <2>2. mainMemory[PhysAddr(q, w)] = private[q][w]
    BY <1>0, <1>4 DEF PrivateMemory
  <2>3. q \in Proc /\ p \in Proc /\ DOMAIN mainMemory = Cell /\ DOMAIN private = Proc
    BY <1>0 DEF TypeOK, Covered
  <2>4. CASE q = p /\ w = v
    <3>1. v \in DOMAIN private[p]
      <4>1. numPages[p] > 0
        BY <1>0, <1>1, <2>3, PhysCell DEF TypeOK
      <4> QED BY <1>0, <1>1, <4>1, Zenon DEF Covered
    <3> QED BY <1>0, <2>1, <2>3, <2>4, <3>1
  <2>5. CASE ~(q = p /\ w = v)
    <3>1. PhysAddr(q, w) # PhysAddr(p, v)
      BY <1>0, <1>1, <2>5, PhysUnique
    <3>2. private'[q][w] = private[q][w]
      BY <1>0, <2>3, <2>5, SMTT(30)
    <3> QED BY <1>0, <2>1, <2>2, <2>3, <3>1, <3>2
  <2> QED BY <2>4, <2>5
<1>5. PrivateMemory'
  <2>1. \A q : \A w : PhysAddr(q, w)' = PhysAddr(q, w)
    BY <1>0, Zenon DEF PhysAddr
  <2> QED BY <1>0, <1>4, <2>1 DEF PrivateMemory
<1> QED BY <1>2, <1>3, <1>5 DEF MInv

(* The byte of the file that step i of the loop for the initialised data   *)
(* copies to cell a.                                                       *)
FileByte(p, f, i, a) ==
    Noff[p].dataIn + i * PageSize + (a - (Noff[p].data + f[i] * PageSize))

(* Where the loading of initialised data puts a byte of the file, when the *)
(* pages are neighbours: into the cell of the same address.                *)
LEMMA DataInPlace ==
    ASSUME NEW p \in Proc, NEW n \in Nat, n = Pages(p),
           NEW f \in [0 .. n - 1 -> Frame], ~Scatters(p, n, f),
           NEW i \in 0 .. n - 1, NEW a \in Nat, DataStep(p, f, i, a)
    PROVE  LET w == FileByte(p, f, i, a)
           IN  /\ w \in Nat /\ w < Noff[p].file
               /\ PageOf(w) \in 0 .. n - 1
               /\ f[PageOf(w)] = PageOf(a) /\ Offset(w) = Offset(a)
<1> DEFINE k == a - (Noff[p].data + f[i] * PageSize)
           w == Noff[p].dataIn + i * PageSize + k
<1>1. /\ PageSize \in Nat \ {0} /\ Noff[p].data \in Nat /\ Noff[p].dataIn = Noff[p].data
      /\ Noff[p].file \in Nat /\ Noff[p].file <= Noff[p].size /\ Noff[p].size \in Nat
      /\ Noff[p].dataSize > 0
  BY AddrSpaceAssumption, LayoutAssumption, SMTT(30) DEF DataStep
<1>2. k \in 0 .. PageSize - 1 /\ w < Noff[p].file
  BY Zenon DEF DataStep
<1> HIDE DEF k
<1>3. f[i] = f[0] + i
  BY <1>1, Zenon DEF Scatters
<1>4. f[i] \in Nat /\ f[0] \in Nat /\ i \in Nat
  <2>1. f[i] \in Frame /\ f[0] \in Frame /\ i \in Nat
    OBVIOUS
  <2>2. Frame \subseteq Nat
    BY DEF Frame
  <2> QED BY <2>1, <2>2, Zenon
<1>5. PICK x \in Nat, y \in Nat, z \in Nat :
          /\ x = f[0] * PageSize /\ y = i * PageSize /\ z = n * PageSize
          /\ f[i] * PageSize = x + y
  <2>1. /\ f[0] * PageSize \in Nat /\ i * PageSize \in Nat /\ n * PageSize \in Nat
        /\ (f[0] + i) * PageSize = f[0] * PageSize + i * PageSize
    BY <1>4, CellsNat, Zenon
  <2> QED BY <1>3, <2>1, Zenon
<1>6. w \in Nat /\ a = x + w /\ w < z
  <2>1. Noff[p].size <= z
    BY <1>5, PagesHold, Zenon
  <2>2. k = a - (Noff[p].data + (x + y))
    BY <1>5, Zenon DEF k
  <2>3. w = Noff[p].data + y + k
    BY <1>1, <1>5, Zenon
  <2> HIDE DEF w
  <2>4. k \in Nat
    BY <1>1, <1>2
  <2>5. w \in Nat /\ a = x + w
    <3> DEFINE d == Noff[p].data
    <3>1. d \in Nat /\ k = a - (d + (x + y)) /\ w = d + y + k
      BY <1>1, <2>2, <2>3, Zenon
    <3> HIDE DEF d
    <3> QED BY <2>4, <3>1
  <2>6. w < z
    <3> DEFINE e == Noff[p].file  s == Noff[p].size
    <3>1. e \in Nat /\ s \in Nat /\ w < e /\ e <= s /\ s <= z
      BY <1>1, <1>2, <2>1, Zenon
    <3> HIDE DEF e, s
    <3> QED BY <2>5, <3>1
  <2> QED BY <2>5, <2>6, Zenon
<1> HIDE DEF w
<1>7. PageOf(w) \in 0 .. n - 1
  <2>1. PageOf(w) \in Nat /\ PageOf(w) < n
    BY <1>5, <1>6, PageBound, PageSplit, Zenon
  <2> QED BY <2>1
<1>8. f[PageOf(w)] = f[0] + PageOf(w)
  BY <1>1, <1>7, Zenon DEF Scatters
<1>9. PageOf(a) = f[0] + PageOf(w) /\ Offset(a) = Offset(w)
  <2>1. PageOf(w) \in Nat /\ Offset(w) \in 0 .. PageSize - 1
        /\ w = PageOf(w) * PageSize + Offset(w)
    BY <1>6, PageSplit, Zenon
  <2>2. PICK u \in Nat : /\ u = PageOf(w) * PageSize
                         /\ (f[0] + PageOf(w)) * PageSize = x + u
    <3>1. PageOf(w) * PageSize \in Nat
          /\ (f[0] + PageOf(w)) * PageSize = f[0] * PageSize + PageOf(w) * PageSize
      BY <1>4, <2>1, CellsNat, Zenon
    <3> QED BY <1>5, <3>1, Zenon
  <2>3. a = (x + u) + Offset(w)
    <3>1. w = u + Offset(w)
      BY <2>1, <2>2, Zenon
    <3>2. Offset(w) \in Nat
      BY <1>1, <2>1
    <3> QED BY <1>6, <3>1, <3>2, SMTT(30)
  <2>4. f[0] + PageOf(w) \in Nat /\ a = (f[0] + PageOf(w)) * PageSize + Offset(w)
    <3>1. f[0] + PageOf(w) \in Nat
      BY <1>4, <2>1
    <3> QED BY <2>2, <2>3, <3>1, Zenon
  <2> QED BY <2>1, <2>4, PageOfCell, Zenon
<1> QED BY <1>2, <1>6, <1>7, <1>8, <1>9, Zenon DEF w, k, FileByte

(* What loading puts into the cells of the pages f of p: the file, and     *)
(* zeros behind it.                                                        *)
LEMMA LoadedOwn ==
    ASSUME NEW p \in Proc, NEW n \in Nat, n = Pages(p),
           NEW f \in [0 .. n - 1 -> Frame], ~Scatters(p, n, f),
           \A i, j \in 0 .. n - 1 : f[i] = f[j] => i = j,
           NEW v \in Nat, PageOf(v) \in 0 .. n - 1,
           f[PageOf(v)] * PageSize + Offset(v) \in Cell
    PROVE  Loaded(p, n, f)[f[PageOf(v)] * PageSize + Offset(v)] = Image(p, v)
<1> DEFINE a == f[PageOf(v)] * PageSize + Offset(v)
<1>1. f[PageOf(v)] \in Nat
  BY DEF Frame
<1>2. /\ Offset(v) \in 0 .. PageSize - 1 /\ v = PageOf(v) * PageSize + Offset(v)
      /\ a \in Nat /\ PageOf(a) = f[PageOf(v)] /\ Offset(a) = Offset(v) /\ a \in Cell
  BY <1>1, PageSplit, PageOfCell, SMTT(30)
<1> HIDE DEF a
<1>3. CASE \E i \in 0 .. n - 1 : DataStep(p, f, i, a)
  <2> DEFINE i == CHOOSE j \in 0 .. n - 1 : DataStep(p, f, j, a)
             w == FileByte(p, f, i, a)
  <2>1. i \in 0 .. n - 1 /\ DataStep(p, f, i, a)
    BY <1>3, Zenon
  <2>2. Loaded(p, n, f)[a] = <<p, w>>
    BY <1>2, <1>3, SMTT(30) DEF Loaded, FileByte
  <2> HIDE DEF i
  <2>3. /\ w \in Nat /\ w < Noff[p].file /\ PageOf(w) \in 0 .. n - 1
        /\ f[PageOf(w)] = PageOf(a) /\ Offset(w) = Offset(a)
    BY <1>2, <2>1, DataInPlace
  <2> HIDE DEF w
  <2>4. PageOf(w) = PageOf(v) /\ Offset(w) = Offset(v)
    BY <1>2, <2>3, Zenon
  <2>5. w = v
    BY <1>2, <2>3, <2>4, PageSplit, Zenon
  <2> QED BY <2>2, <2>3, <2>5, Zenon DEF Image, a
<1>4. CASE ~\E i \in 0 .. n - 1 : DataStep(p, f, i, a)
  <2> DEFINE i == CHOOSE j \in 0 .. n - 1 : f[j] = PageOf(a)
  <2>1. \E j \in 0 .. n - 1 : f[j] = PageOf(a)
    BY <1>2, Zenon
  <2>2. i \in 0 .. n - 1 /\ f[i] = PageOf(a)
    BY <2>1, Zenon
  <2>3. Loaded(p, n, f)[a] = CodeLoop(p, i * PageSize + Offset(a), a)
    BY <1>2, <1>4, <2>1, Zenon DEF Loaded
  <2> HIDE DEF i
  <2>4. i = PageOf(v)
    BY <1>2, <2>2, Zenon
  <2> QED BY <1>2, <2>3, <2>4, Zenon DEF CodeLoop, Image, a
<1> QED BY <1>3, <1>4, Zenon

(* Loading leaves the cells of other pages alone.                          *)
LEMMA LoadedOther ==
    ASSUME NEW p \in Proc, NEW n \in Nat, n = Pages(p),
           NEW f \in [0 .. n - 1 -> Frame], ~Scatters(p, n, f),
           NEW a \in Cell, a \in Nat, \A i \in 0 .. n - 1 : f[i] # PageOf(a)
    PROVE  Loaded(p, n, f)[a] = mainMemory[a]
<1>1. ASSUME NEW i \in 0 .. n - 1, DataStep(p, f, i, a) PROVE FALSE
  <2>1. /\ PageOf(FileByte(p, f, i, a)) \in 0 .. n - 1
        /\ f[PageOf(FileByte(p, f, i, a))] = PageOf(a)
    BY <1>1, DataInPlace
  <2> QED BY <2>1, Zenon
<1> QED BY <1>1, Zenon DEF Loaded

(* The constructor writes to its new pages only, and writes there what the *)
(* program is to find.                                                     *)
LEMMA CreateMemory ==
    ASSUME IInv, IInv', MInv, NEW p \in Proc, Create(p)
    PROVE  MInv'
<1> DEFINE n == Pages(p)
<1>0. /\ TypeOK /\ Exact /\ InMemory /\ Covered /\ PrivateMemory
      /\ n \in Nat /\ p \notin running /\ machine = "up"
  BY PagesNat, Zenon DEF IInv, MInv, Create
<1>1. PICK f \in [0 .. n - 1 -> Frame \ bitmap] :
          /\ pageTable' = [pageTable EXCEPT ![p] = f]
          /\ mainMemory' = Loaded(p, n, f)
          /\ machine' = IF WritesOutside(p, n, f) THEN "corrupt" ELSE "up"
          /\ scattered' = IF Scatters(p, n, f) THEN scattered \cup {p} ELSE scattered
  BY Zenon DEF Create
<1>2. /\ numPages' = [numPages EXCEPT ![p] = n] /\ running' = running \cup {p}
      /\ private' = [private EXCEPT ![p] = [v \in 0 .. n * PageSize - 1 |-> Image(p, v)]]
  BY Zenon DEF Create
<1> HIDE DEF n
<1>3. /\ numPages'[p] = n /\ pageTable'[p] = f
      /\ \A q \in running : /\ numPages'[q] = numPages[q] /\ pageTable'[q] = pageTable[q]
                            /\ private'[q] = private[q] /\ q # p
      /\ private'[p] = [v \in 0 .. n * PageSize - 1 |-> Image(p, v)]
  BY <1>0, <1>1, <1>2, Zenon DEF TypeOK, Covered
<1>4. machine' # "corrupt" => \A i \in 0 .. n - 1 : f[i] < NumPhysPages
  <2>1. \A i \in 0 .. n - 1 : f[i] \in Int
    BY DEF Frame
  <2> QED BY <1>1, <2>1, AddrSpaceAssumption DEF WritesOutside
<1>5. InMemory'
  BY <1>0, <1>2, <1>3, <1>4, Zenon DEF InMemory
<1>6. Covered'
  BY <1>0, <1>2, <1>3, Zenon DEF Covered
<1>7. \A i, j \in 0 .. n - 1 : f[i] = f[j] => i = j
  <2>1. \A q \in running' : \A i, j \in 0 .. numPages'[q] - 1 :
            pageTable'[q][i] = pageTable'[q][j] => i = j
    BY Zenon DEF IInv, Exact
  <2>2. p \in running'
    BY <1>2, Zenon
  <2> QED BY <1>3, <2>1, <2>2, ZenonT(30)
<1>8. ASSUME machine' \in {"up", "halted"}, scattered' = {}, NEW q \in running',
             NEW v \in 0 .. numPages'[q] * PageSize - 1
      PROVE  mainMemory'[PhysAddr(q, v)'] = private'[q][v]
  <2>1. machine' # "corrupt" /\ ~Scatters(p, n, f) /\ scattered = {}
    BY <1>1, <1>8, Zenon
  <2>2. v \in Nat
    BY <1>8
  <2>3. CASE q = p
    <3>1. PhysAddr(p, v)' = f[PageOf(v)] * PageSize + Offset(v)
      BY <1>3, Zenon DEF PhysAddr, PageOf, Offset
    <3>2. f \in [0 .. n - 1 -> Frame] /\ n = Pages(p)
      BY Zenon DEF n
    <3>3. PageOf(v) \in 0 .. n - 1 /\ f[PageOf(v)] * PageSize + Offset(v) \in Cell
      BY <1>0, <1>3, <1>4, <1>8, <2>1, <2>3, <3>2, TableCell, SMTT(30)
    <3>4. Loaded(p, n, f)[f[PageOf(v)] * PageSize + Offset(v)] = Image(p, v)
      BY <1>0, <1>7, <2>1, <2>2, <3>2, <3>3, LoadedOwn, SMTT(30)
    <3> QED BY <1>1, <1>3, <1>8, <2>3, <3>1, <3>4, ZenonT(30)
  <2>4. CASE q # p
    <3>1. q \in running /\ v \in 0 .. numPages[q] * PageSize - 1
      BY <1>2, <1>3, <1>8, <2>4, ZenonT(30)
    <3>2. PhysAddr(q, v)' = PhysAddr(q, v)
      BY <1>3, <3>1, ZenonT(30) DEF PhysAddr, PageOf, Offset
    <3>3. /\ PageOf(v) \in 0 .. numPages[q] - 1 /\ PhysAddr(q, v) \in Cell
          /\ PageOf(PhysAddr(q, v)) = pageTable[q][PageOf(v)]
      BY <1>0, <3>1, PhysCell, Zenon
    <3>4. PageOf(PhysAddr(q, v)) \in bitmap
      BY <1>0, <3>1, <3>3, Zenon DEF Exact, Has
    <3>5. \A i \in 0 .. n - 1 : f[i] # PageOf(PhysAddr(q, v))
      BY <3>4, Zenon
    <3>6. PhysAddr(q, v) \in Nat
      BY <3>3, SMTT(30) DEF Cell
    <3>7. f \in [0 .. n - 1 -> Frame] /\ n = Pages(p)
      BY Zenon DEF n
    <3>8. Loaded(p, n, f)[PhysAddr(q, v)] = mainMemory[PhysAddr(q, v)]
      BY <1>0, <2>1, <3>3, <3>5, <3>6, <3>7, LoadedOther, ZenonT(30)
    <3>9. mainMemory[PhysAddr(q, v)] = private[q][v]
      BY <1>0, <2>1, <3>1, Zenon DEF PrivateMemory
    <3> QED BY <1>1, <1>3, <3>1, <3>2, <3>8, <3>9, ZenonT(30)
  <2> QED BY <2>3, <2>4, Zenon
<1>9. PrivateMemory'
  BY <1>8, ZenonT(30) DEF PrivateMemory
<1> QED BY <1>5, <1>6, <1>9, Zenon DEF MInv

(* The other steps move nothing in memory.                                 *)
LEMMA MemoryKept ==
    ASSUME MInv, running' \subseteq running, machine = "up",
           UNCHANGED <<mainMemory, scattered>>, DOMAIN private' = Proc,
           \A q \in running' : /\ numPages'[q] = numPages[q] /\ private'[q] = private[q]
                               /\ pageTable'[q] = pageTable[q]
    PROVE  MInv'
<1>1. \A q \in running' : \A v : PhysAddr(q, v)' = PhysAddr(q, v)
  BY Zenon DEF PhysAddr, PageOf, Offset
<1>2. InMemory' /\ Covered'
  BY SMTT(30) DEF MInv, InMemory, Covered
<1>3. ASSUME machine' \in {"up", "halted"}, scattered' = {}, NEW q \in running',
             NEW v \in 0 .. numPages'[q] * PageSize - 1
      PROVE  mainMemory'[PhysAddr(q, v)'] = private'[q][v]
  <2>1. v \in 0 .. numPages[q] * PageSize - 1 /\ q \in running /\ scattered = {}
    BY <1>3, Zenon
  <2>2. mainMemory[PhysAddr(q, v)] = private[q][v]
    BY <2>1, Zenon DEF MInv, PrivateMemory
  <2> QED BY <1>1, <2>2, Zenon
<1>4. PrivateMemory'
  BY <1>3, ZenonT(30) DEF PrivateMemory
<1> QED BY <1>2, <1>4, Zenon DEF MInv

(* The inductive invariant of the memory.                                  *)
LEMMA MemoryInvariance == Spec => []MInv
<1>1. Init => MInv
  BY Zenon DEF Init, MInv, InMemory, Covered, PrivateMemory
<1>2. IInv /\ IInv' /\ MInv /\ [Next]_vars => MInv'
  <2> SUFFICES ASSUME IInv, IInv', MInv, [Next]_vars PROVE MInv'
    BY Zenon
  <2>0. DOMAIN private = Proc /\ DOMAIN numPages = Proc /\ DOMAIN pageTable = Proc
        /\ running \subseteq Proc
    BY Zenon DEF MInv, Covered, IInv, TypeOK
  <2>1. ASSUME NEW p \in Proc, CreateEmpty(p) PROVE MInv'
    <3>1. /\ p \notin running /\ running' = running \cup {p}
          /\ numPages' = [numPages EXCEPT ![p] = 0]
          /\ UNCHANGED <<bitmap, pageTable, mainMemory, private, machine, scattered>>
      BY <2>1, Zenon DEF CreateEmpty
    <3>2. numPages'[p] = 0 /\ \A q \in running : q # p /\ numPages'[q] = numPages[q]
      BY <2>0, <3>1, Zenon
    <3>3. \A q : \A v : PhysAddr(q, v)' = PhysAddr(q, v)
      BY <3>1, Zenon DEF PhysAddr, PageOf, Offset
    <3>4. 0 .. numPages'[p] * PageSize - 1 = {} /\ 0 .. numPages'[p] - 1 = {}
      BY <3>2, AddrSpaceAssumption
    <3>5. InMemory' /\ Covered'
      BY <3>1, <3>2, <3>4, SMTT(30) DEF MInv, InMemory, Covered
    <3>6. PrivateMemory'
      BY <3>1, <3>2, <3>3, <3>4 DEF MInv, PrivateMemory
    <3> QED BY <3>5, <3>6, Zenon DEF MInv
  <2>2. ASSUME NEW p \in Proc, CreateTooBig(p) PROVE MInv'
    BY <2>0, <2>2, MemoryKept, Zenon DEF CreateTooBig
  <2>3. ASSUME NEW p \in Proc, Destroy(p) PROVE MInv'
    <3>1. \A q \in running' : q \in running /\ q # p
      BY <2>3, Zenon DEF Destroy
    <3>2. \A q \in running' : /\ numPages'[q] = numPages[q] /\ private'[q] = private[q]
                              /\ pageTable'[q] = pageTable[q]
      BY <2>0, <2>3, <3>1, Zenon DEF Destroy
    <3> QED BY <2>0, <2>3, <3>1, <3>2, MemoryKept, Zenon DEF Destroy
  <2>4. ASSUME NEW p \in Proc, NEW v \in VAddr, Access(p, v) PROVE MInv'
    BY <2>0, <2>4, MemoryKept, Zenon DEF Access
  <2>5. CASE UNCHANGED vars
    <3>1. \A q : \A v : PhysAddr(q, v)' = PhysAddr(q, v)
      BY <2>5, Zenon DEF vars, PhysAddr, PageOf, Offset
    <3> QED BY <2>5, <3>1 DEF vars, MInv, InMemory, Covered, PrivateMemory
  <2> QED BY <2>1, <2>2, <2>3, <2>4, <2>5, CreateMemory, WriteMemory, Zenon DEF Next
<1> QED BY <1>1, <1>2, Invariance, PTL DEF Spec

(* However programs are loaded, store and exit, each finds through its     *)
(* page table what its file and its own stores put there, as long as no    *)
(* program with initialised data got pages that are not neighbours and the *)
(* loader did not write behind the memory.                                 *)
THEOREM MemoryIsPrivate == Spec => []PrivateMemory
BY MemoryInvariance, PTL DEF MInv
-----------------------------------------------------------------------------
(* The invariant: besides the three properties, a name that is not in the  *)
(* table has not been used, and no value is negative if none of the        *)
(* initial ones is.                                                        *)
SemInv ==
    /\ SemTypeOK
    /\ OneEntryPerName
    /\ UnitsConserved
    /\ \A n \in SemName : Missing(n) => got[n] = 0 /\ given[n] = 0 /\ first[n] = 0
    /\ Initial \subseteq Nat => value \in [Slot -> Nat]

(* The table is empty at first.                                            *)
LEMMA InitSem == SemInit => SemInv
BY SMTT(30), SemTableAssumption DEF SemInit, SemInv, SemTypeOK, OneEntryPerName,
       UnitsConserved, Slot

(* A new name goes to a free entry; its counts start at zero.              *)
LEMMA CreateSemaphoreStep ==
    ASSUME SemInv,
           NEW p \in User, NEW n \in SemName, NEW init \in Initial,
           CreateSemaphore(p, n, init)
    PROVE  SemInv'
<1>1. PICK i \in Slot :
          /\ Found(NoSem, i)
          /\ sem' = [sem EXCEPT ![i] = n]
          /\ value' = [value EXCEPT ![i] = init]
  BY Zenon DEF CreateSemaphore
<1>2. /\ first' = [first EXCEPT ![n] = init] /\ Missing(n)
      /\ semResult' = [semResult EXCEPT ![p] = 0]
      /\ UNCHANGED <<waitOn, got, given>>
  BY Zenon DEF CreateSemaphore, SemReturns
<1>3. SemTypeOK'
  BY <1>1, <1>2, SemTableAssumption, Zenon DEF SemInv, SemTypeOK
<1>4. OneEntryPerName'
  BY <1>1, <1>2, Zenon DEF SemInv, SemTypeOK, OneEntryPerName, Missing
<1>5. UnitsConserved'
  <2> SUFFICES ASSUME NEW j \in Slot, sem'[j] # NoSem
               PROVE  value'[j] = first'[sem'[j]] + given'[sem'[j]] - got'[sem'[j]]
    BY Zenon DEF UnitsConserved
  <2>1. init \in Int /\ got[n] = 0 /\ given[n] = 0
    BY <1>2, SemTableAssumption, Zenon DEF SemInv
  <2>2. CASE j = i
    BY <1>1, <1>2, <2>1, <2>2 DEF SemInv, SemTypeOK
  <2>3. CASE j # i
    <3>1. sem'[j] = sem[j] /\ sem[j] # n /\ sem[j] \in SemName /\ value'[j] = value[j]
      BY <1>1, <1>2, <2>3, Zenon DEF SemInv, SemTypeOK, Missing
    <3> QED BY <1>2, <3>1, Zenon DEF SemInv, SemTypeOK, UnitsConserved
  <2> QED BY <2>2, <2>3, Zenon
<1>6. \A k \in SemName : Missing(k)' => got'[k] = 0 /\ given'[k] = 0 /\ first'[k] = 0
  <2> SUFFICES ASSUME NEW k \in SemName, Missing(k)'
               PROVE  Missing(k) /\ k # n
    BY <1>2, Zenon DEF SemInv, SemTypeOK
  <2> QED BY <1>1, SemTableAssumption, Zenon DEF SemInv, SemTypeOK, Missing, Found
<1>7. Initial \subseteq Nat => value' \in [Slot -> Nat]
  BY <1>1, SemTableAssumption, Zenon DEF SemInv, SemTypeOK
<1> QED BY <1>3, <1>4, <1>5, <1>6, <1>7, Zenon DEF SemInv

(* The sum stays right when both of its sides change by the same.          *)
LEMMA Balance ==
    ASSUME NEW f \in Int, NEW v \in Int, NEW g \in Int, NEW w \in Int,
           NEW v1 \in Int, NEW g1 \in Int, NEW w1 \in Int,
           v = f + g - w, v1 - v = (g1 - g) - (w1 - w)
    PROVE  v1 = f + g1 - w1
OBVIOUS

(* Units move in and out of entry i and are counted under its name.        *)
LEMMA UnitStep ==
    ASSUME SemInv, NEW i \in Slot, sem[i] # NoSem,
           value' \in [Slot -> Int],
           Initial \subseteq Nat => value' \in [Slot -> Nat],
           got' \in [SemName -> Nat], given' \in [SemName -> Nat],
           \A j \in Slot \ {i} : value'[j] = value[j],
           \A n \in SemName \ {sem[i]} : got'[n] = got[n] /\ given'[n] = given[n],
           value'[i] - value[i] = (given'[sem[i]] - given[sem[i]])
                                  - (got'[sem[i]] - got[sem[i]]),
           UNCHANGED <<sem, first>>,
           \A p \in User : waitOn'[p] \in {waitOn[p], NoSem},
           waitOn' \in [User -> Slot \cup {NoSem}],
           semResult' \in [User -> {0, -1}]
    PROVE  SemInv'
<1>0. sem[i] \in SemName
  BY DEF SemInv, SemTypeOK
<1>1. SemTypeOK'
  BY <1>0, Zenon DEF SemInv, SemTypeOK
<1>2. OneEntryPerName'
  BY Zenon DEF SemInv, OneEntryPerName
<1>3. UnitsConserved'
  <2> SUFFICES ASSUME NEW j \in Slot, sem[j] # NoSem
               PROVE  value'[j] = first[sem[j]] + given'[sem[j]] - got'[sem[j]]
    BY Zenon DEF UnitsConserved
  <2>1. CASE j = i
    <3>1. PICK f, v, g, w :
             /\ f = first[sem[i]] /\ v = value[i]
             /\ g = given[sem[i]] /\ w = got[sem[i]]
      BY Zenon
    <3>2. PICK v1, g1, w1 :
             v1 = value'[i] /\ g1 = given'[sem[i]] /\ w1 = got'[sem[i]]
      BY Zenon
    <3>3. f \in Int /\ v \in Int /\ g \in Int /\ w \in Int /\ v = f + g - w
      BY <1>0, <3>1, SMTT(30) DEF SemInv, SemTypeOK, UnitsConserved
    <3>4. v1 \in Int /\ g1 \in Int /\ w1 \in Int
      BY <1>0, <3>2
    <3>5. v1 - v = (g1 - g) - (w1 - w)
      BY <3>1, <3>2, Zenon
    <3>6. v1 = f + g1 - w1
      BY ONLY <3>3, <3>4, <3>5, Balance, SMTT(30)
    <3> QED BY <2>1, <3>1, <3>2, <3>6, Zenon
  <2>2. CASE j # i
    <3>1. sem[j] # sem[i]
      BY <2>2, Zenon DEF SemInv, OneEntryPerName
    <3> QED BY <1>0, <2>2, <3>1 DEF SemInv, SemTypeOK, UnitsConserved
  <2> QED BY <2>1, <2>2, Zenon
<1>4. \A k \in SemName : Missing(k)' => got'[k] = 0 /\ given'[k] = 0 /\ first'[k] = 0
  <2> SUFFICES ASSUME NEW k \in SemName, Missing(k)
               PROVE  k # sem[i]
    BY <1>0, Zenon DEF SemInv, SemTypeOK, Missing
  <2> QED BY Zenon DEF Missing
<1> QED BY <1>1, <1>2, <1>3, <1>4, Zenon DEF SemInv

(* The inductive invariant.                                                *)
LEMMA SemInvariance == SemSpec => []SemInv
<1>1. SemInv /\ [SemNext]_semVars => SemInv'
  <2> SUFFICES ASSUME SemInv, [SemNext]_semVars PROVE SemInv'
    BY Zenon
  <2> USE DEF SemReturns, S!Wait, S!Take, S!Release
  <2>1. ASSUME NEW p \in User, WaitReturns(p) PROVE SemInv'
    <3>1. PICK i \in Slot : waitOn[p] = i /\ S!Take(p, i)
      BY <2>1, Zenon DEF WaitReturns, SemInv, SemTypeOK
    <3>2. /\ sem[i] # NoSem /\ sem[i] \in SemName
          /\ value[i] \in Int /\ value[i] > 0
      BY <2>1, <3>1, SemTableAssumption, SMTT(30) DEF WaitReturns, Found, SemInv, SemTypeOK
    <3>3. /\ value' \in [Slot -> Int]
          /\ Initial \subseteq Nat => value' \in [Slot -> Nat]
          /\ got' \in [SemName -> Nat] /\ given' \in [SemName -> Nat]
          /\ \A j \in Slot \ {i} : value'[j] = value[j]
          /\ \A k \in SemName \ {sem[i]} : got'[k] = got[k] /\ given'[k] = given[k]
          /\ value'[i] - value[i] = (given'[sem[i]] - given[sem[i]])
                                    - (got'[sem[i]] - got[sem[i]])
      BY <2>1, <3>1, <3>2, SMTT(30) DEF WaitReturns, SemInv, SemTypeOK
    <3>4. /\ \A q \in User : waitOn'[q] \in {waitOn[q], NoSem}
          /\ waitOn' \in [User -> Slot \cup {NoSem}]
          /\ semResult' \in [User -> {0, -1}]
          /\ UNCHANGED <<sem, first>>
      BY <2>1, <3>1, SMTT(30) DEF WaitReturns, SemInv, SemTypeOK
    <3> QED BY <3>1, <3>2, <3>3, <3>4, UnitStep, Zenon
  <2>2. ASSUME NEW p \in User, NEW n \in SemName, Wait(p, n) PROVE SemInv'
    <3>1. PICK i \in Slot : /\ Found(n, i) /\ value[i] # 0
                            /\ value' = [value EXCEPT ![i] = @ - 1]
      BY <2>2, Zenon DEF Wait
    <3>2. /\ sem[i] # NoSem /\ sem[i] \in SemName
          /\ value[i] \in Int /\ sem[i] = n
      BY <2>2, <3>1, SemTableAssumption, Zenon DEF Wait, Found, SemInv, SemTypeOK
    <3>3. /\ value' \in [Slot -> Int]
          /\ Initial \subseteq Nat => value' \in [Slot -> Nat]
          /\ got' \in [SemName -> Nat] /\ given' \in [SemName -> Nat]
          /\ \A j \in Slot \ {i} : value'[j] = value[j]
          /\ \A k \in SemName \ {sem[i]} : got'[k] = got[k] /\ given'[k] = given[k]
          /\ value'[i] - value[i] = (given'[sem[i]] - given[sem[i]])
                                    - (got'[sem[i]] - got[sem[i]])
      BY <2>2, <3>1, <3>2, SMTT(30) DEF Wait, SemInv, SemTypeOK
    <3>4. /\ \A q \in User : waitOn'[q] \in {waitOn[q], NoSem}
          /\ waitOn' \in [User -> Slot \cup {NoSem}]
          /\ semResult' \in [User -> {0, -1}]
          /\ UNCHANGED <<sem, first>>
      BY <2>2, <3>1, SMTT(30) DEF Wait, SemInv, SemTypeOK
    <3> QED BY <3>1, <3>2, <3>3, <3>4, UnitStep, Zenon
  <2>3. ASSUME NEW p \in User, NEW n \in SemName, Signal(p, n) PROVE SemInv'
    <3>1. PICK i \in Slot : Found(n, i) /\ S!Release(i)
      BY <2>3, Zenon DEF Signal
    <3>2. /\ sem[i] # NoSem /\ sem[i] \in SemName
          /\ value[i] \in Int /\ sem[i] = n
      BY <2>3, <3>1, SemTableAssumption, Zenon DEF Signal, Found, SemInv, SemTypeOK
    <3>3. /\ value' \in [Slot -> Int]
          /\ Initial \subseteq Nat => value' \in [Slot -> Nat]
          /\ got' \in [SemName -> Nat] /\ given' \in [SemName -> Nat]
          /\ \A j \in Slot \ {i} : value'[j] = value[j]
          /\ \A k \in SemName \ {sem[i]} : got'[k] = got[k] /\ given'[k] = given[k]
          /\ value'[i] - value[i] = (given'[sem[i]] - given[sem[i]])
                                    - (got'[sem[i]] - got[sem[i]])
      BY <2>3, <3>1, <3>2 DEF Signal, SemInv, SemTypeOK
    <3>4. /\ \A q \in User : waitOn'[q] \in {waitOn[q], NoSem}
          /\ waitOn' \in [User -> Slot \cup {NoSem}]
          /\ semResult' \in [User -> {0, -1}]
          /\ UNCHANGED <<sem, first>>
      BY <2>3, <3>1, SMTT(30) DEF Signal, SemInv, SemTypeOK
    <3> QED BY <3>1, <3>2, <3>3, <3>4, UnitStep, Zenon
  <2>4. ASSUME NEW p \in User, NEW n \in SemName, WaitSleeps(p, n) PROVE SemInv'
    <3>1. PICK i \in Slot : Found(n, i) /\ S!Wait(p, i)
      BY <2>4, Zenon DEF WaitSleeps
    <3>2. /\ sem[i] # NoSem /\ waitOn' = [waitOn EXCEPT ![p] = i]
          /\ UNCHANGED <<sem, value, semResult, first, got, given>>
      BY <2>4, <3>1, Zenon, SemTableAssumption DEF WaitSleeps, Found, counts
    <3>3. SemTypeOK'
      BY <3>2, Zenon DEF SemInv, SemTypeOK
    <3> QED BY <3>2, <3>3, Zenon DEF SemInv, OneEntryPerName, UnitsConserved, Missing
  <2>5. ASSUME NEW p \in User, NEW n \in SemName,
               CreateFail(p, n) \/ Unknown(p, n)
        PROVE  SemInv'
    <3>1. /\ UNCHANGED <<sem, value, waitOn, first, got, given>>
          /\ semResult' = [semResult EXCEPT ![p] = -1]
      BY <2>5, Zenon DEF CreateFail, Unknown, counts
    <3>2. SemTypeOK'
      BY <3>1, Zenon DEF SemInv, SemTypeOK
    <3> QED BY <3>1, <3>2, Zenon DEF SemInv, OneEntryPerName, UnitsConserved, Missing
  <2>6. CASE UNCHANGED semVars
    BY <2>6, Zenon DEF semVars, SemInv, SemTypeOK, OneEntryPerName,
                UnitsConserved, Missing
  <2> QED BY <2>1, <2>2, <2>3, <2>4, <2>5, <2>6, CreateSemaphoreStep, Zenon DEF SemNext
<1> QED BY <1>1, InitSem, PTL DEF SemSpec

(* Programs that use the same name use the same semaphore.                 *)
THEOREM NamesAreUnique == SemSpec => []OneEntryPerName
<1>1. SemInv => OneEntryPerName
  BY Zenon DEF SemInv
<1> QED BY <1>1, SemInvariance, PTL

(* The value of a semaphore accounts for every Wait and Signal of its name. *)
THEOREM ValuesAddUp == SemSpec => []UnitsConserved
<1>1. SemInv => UnitsConserved
  BY Zenon DEF SemInv
<1> QED BY <1>1, SemInvariance, PTL

(* No more Waits succeed than units were created and signalled, when no    *)
(* program asks for a negative initial value.                              *)
THEOREM WaitsNeverExceedUnits ==
    Initial \subseteq Nat => (SemSpec => []WaitsAreCovered)
<1> SUFFICES ASSUME Initial \subseteq Nat PROVE SemSpec => []WaitsAreCovered
  BY Zenon
<1>1. SemInv => WaitsAreCovered
  <2> SUFFICES ASSUME SemInv, NEW n \in SemName
               PROVE  /\ got[n] <= first[n] + given[n]
                      /\ Missing(n) => got[n] = 0 /\ given[n] = 0
    BY Zenon DEF WaitsAreCovered
  <2>1. CASE Missing(n)
    BY <2>1 DEF SemInv
  <2>2. CASE ~Missing(n)
    <3>1. PICK i \in Slot : sem[i] = n
      BY <2>2, Zenon DEF Missing
    <3>2. n # NoSem
      BY SemTableAssumption, Zenon
    <3> QED BY <2>2, <3>1, <3>2 DEF SemInv, SemTypeOK, UnitsConserved
  <2> QED BY <2>1, <2>2, Zenon
<1> QED BY <1>1, SemInvariance, PTL
-----------------------------------------------------------------------------
(* The registers of the processor.                                         *)
Reg == GPReg \cup HiReg .. BadVAddrReg

(* A file of registers in which the load in progress goes to a general     *)
(* register.                                                               *)
IsFile(r) == r = [k \in Reg |-> r[k]] /\ r[LoadReg] \in GPReg

(* Between two instructions the registers are such a file.                 *)
RegisterInv == IsFile(registers)

(* The numbers of the registers that the proof tells apart.                *)
LEMMA RegNumbers ==
    /\ GPReg \subseteq Reg /\ 0 \in GPReg
    /\ {HiReg, LoReg, PCReg, NextPCReg, PrevPCReg, LoadReg, LoadValueReg, BadVAddrReg} \subseteq Reg
    /\ LoadReg \notin GPReg \cup {HiReg, LoReg, PCReg, NextPCReg, PrevPCReg, LoadValueReg, BadVAddrReg}
    /\ (HiReg .. PrevPCReg) \cap (GPReg \cup {LoadReg, LoadValueReg, BadVAddrReg}) = {}
    /\ HiReg .. PrevPCReg \subseteq Reg
    /\ LoadValueReg \notin GPReg /\ BadVAddrReg \notin GPReg /\ LoadValueReg # BadVAddrReg
BY DEF Reg, GPReg, HiReg, LoReg, PCReg, NextPCReg, PrevPCReg, LoadReg, LoadValueReg, BadVAddrReg, R31

(* DelayedLoad ends the load in progress and begins another.               *)
LEMMA DelayedLoadIs ==
    ASSUME NEW r, IsFile(r), NEW reg \in GPReg, NEW v
    PROVE  /\ IsFile(DelayedLoad(r, reg, v))
           /\ DelayedLoad(r, reg, v)[LoadReg] = reg
           /\ \A k \in GPReg \ {0} : DelayedLoad(r, reg, v)[k] =
                IF k = r[LoadReg] THEN r[LoadValueReg] ELSE r[k]
           /\ \A k \in HiReg .. PrevPCReg : DelayedLoad(r, reg, v)[k] = r[k]
BY RegNumbers, Zenon DEF IsFile, DelayedLoad

(* A trap keeps the registers, but for the load in progress, which ends.   *)
LEMMA RaiseExceptionIs ==
    ASSUME NEW s, IsFile(s.r), NEW which, NEW badVAddr
    PROVE  LET t == RaiseException(s, which, badVAddr) IN
           /\ t.m = s.m /\ t.mode = which /\ IsFile(t.r) /\ t.r[LoadReg] = 0
           /\ \A k \in GPReg \ {0} : t.r[k] =
                IF k = s.r[LoadReg] THEN s.r[LoadValueReg] ELSE s.r[k]
           /\ \A k \in HiReg .. PrevPCReg : t.r[k] = s.r[k]
<1>1. PICK q : q = [s.r EXCEPT ![BadVAddrReg] = badVAddr]
  BY Zenon
<1>2. /\ IsFile(q) /\ q[LoadReg] = s.r[LoadReg] /\ q[LoadValueReg] = s.r[LoadValueReg]
      /\ \A k \in GPReg : q[k] = s.r[k]
      /\ \A k \in HiReg .. PrevPCReg : q[k] = s.r[k]
  BY <1>1, RegNumbers DEF IsFile
<1>3. RaiseException(s, which, badVAddr) = [r |-> DelayedLoad(q, 0, 0), m |-> s.m, mode |-> which]
  BY <1>1 DEF RaiseException
<1>4. PICK t : t = DelayedLoad(q, 0, 0)
  BY SMTT(30)
<1>5. /\ IsFile(t) /\ t[LoadReg] = 0
      /\ \A k \in GPReg \ {0} : t[k] = IF k = q[LoadReg] THEN q[LoadValueReg] ELSE q[k]
      /\ \A k \in HiReg .. PrevPCReg : t[k] = q[k]
  BY <1>2, <1>4, DelayedLoadIs, RegNumbers, SMTT(30)
<1>6. /\ \A k \in GPReg \ {0} : t[k] = IF k = s.r[LoadReg] THEN s.r[LoadValueReg] ELSE s.r[k]
      /\ \A k \in HiReg .. PrevPCReg : t[k] = s.r[k]
  BY <1>2, <1>5, SMTT(30)
<1>7. PICK w : w = RaiseException(s, which, badVAddr)
  OBVIOUS
<1>8. w.r = t /\ w.m = s.m /\ w.mode = which
  BY <1>3, <1>4, <1>7, SMTT(30)
<1> QED BY <1>5, <1>6, <1>7, <1>8, ZenonT(30)

(* An instruction that completes leaves such a file.                       *)
LEMMA CompleteIs ==
    ASSUME NEW s, NEW r, IsFile(r), NEW m, NEW pcAfter, NEW reg \in GPReg, NEW v
    PROVE  /\ Complete(s, r, m, pcAfter, reg, v).mode = "user"
           /\ IsFile(Complete(s, r, m, pcAfter, reg, v).r)
<1>1. PICK q : q = DelayedLoad(r, reg, v)
  OBVIOUS
<1>2. IsFile(q)
  BY <1>1, DelayedLoadIs
<1>3. Complete(s, r, m, pcAfter, reg, v) =
        [r |-> [q EXCEPT ![PrevPCReg] = s.r[PCReg], ![PCReg] = s.r[NextPCReg],
                         ![NextPCReg] = pcAfter], m |-> m, mode |-> "user"]
  BY <1>1 DEF Complete
<1> QED BY <1>2, <1>3, RegNumbers DEF IsFile

(* An instruction completes, traps, or the host's division traps.          *)
Ends(s, t) ==
    /\ IsFile(t.r)
    /\ \/ t.mode \in {"user", "host trap"}
       \/ /\ t.m = s.m /\ t.r[LoadReg] = 0
          /\ \A k \in GPReg \ {0} : t.r[k] =
               IF k = s.r[LoadReg] THEN s.r[LoadValueReg] ELSE s.r[k]
          /\ \A k \in HiReg .. PrevPCReg : t.r[k] = s.r[k]

(* An instruction that completes.                                          *)
LEMMA CompleteEnds ==
    ASSUME NEW s, NEW r, IsFile(r), NEW m, NEW pcAfter, NEW reg \in GPReg, NEW v
    PROVE  Ends(s, Complete(s, r, m, pcAfter, reg, v))
BY CompleteIs, Zenon DEF Ends

(* Machine::RaiseException completes the load in progress and no more.     *)
LEMMA TrapEnds ==
    ASSUME NEW s, IsFile(s.r), NEW which, NEW badVAddr
    PROVE  Ends(s, RaiseException(s, which, badVAddr))
<1>1. PICK t : t = RaiseException(s, which, badVAddr)
  BY SMTT(30)
<1>2. /\ t.m = s.m /\ IsFile(t.r) /\ t.r[LoadReg] = 0
      /\ \A k \in GPReg \ {0} : t.r[k] =
           IF k = s.r[LoadReg] THEN s.r[LoadValueReg] ELSE s.r[k]
      /\ \A k \in HiReg .. PrevPCReg : t.r[k] = s.r[k]
  BY <1>1, RaiseExceptionIs
<1> QED BY <1>1, <1>2, Zenon DEF Ends

(* The computing instructions, which may trap on overflow.                 *)
LEMMA ComputeEnds ==
    ASSUME NEW s, IsFile(s.r), NEW i, {i.rs, i.rt, i.rd} \subseteq GPReg
    PROVE  Ends(s, Compute(s, i))
<1>1. PICK to : to = IF i.op \in ImmediateOps THEN i.rt ELSE i.rd
  OBVIOUS
<1>2. PICK v : v = Alu(s.r[i.rs], s.r[i.rt], i.extra, s.r[HiReg], s.r[LoReg])[i.op]
  OBVIOUS
<1>3. PICK r : r = [s.r EXCEPT ![to] = v]
  OBVIOUS
<1>4. to \in GPReg
  BY <1>1
<1>5. IsFile(r)
  BY <1>3, <1>4, RegNumbers DEF IsFile
<1>6. \/ Compute(s, i) = RaiseException(s, "Overflow", 0)
      \/ Compute(s, i) = Complete(s, r, s.m, NextPC(s), 0, 0)
  BY <1>1, <1>2, <1>3, Zenon DEF Compute
<1>7. 0 \in GPReg
  BY RegNumbers
<1> QED BY <1>5, <1>6, <1>7, TrapEnds, CompleteEnds, Zenon

(* Multiplication and division.                                            *)
LEMMA ComputeHiLoEnds ==
    ASSUME NEW s, IsFile(s.r), NEW i
    PROVE  Ends(s, ComputeHiLo(s, i))
<1>1. PICK hl : hl = HiLo(i.op, s.r[i.rs], s.r[i.rt], s.r[HiReg], s.r[LoReg])
  BY SMTT(30)
<1>2. PICK r : r = [s.r EXCEPT ![HiReg] = hl[1], ![LoReg] = hl[2]]
  OBVIOUS
<1>3. IsFile(r)
  BY <1>2, RegNumbers DEF IsFile
<1>4. \/ ComputeHiLo(s, i) = [r |-> s.r, m |-> s.m, mode |-> "host trap"]
      \/ ComputeHiLo(s, i) = Complete(s, r, s.m, NextPC(s), 0, 0)
  BY <1>1, <1>2, Zenon DEF ComputeHiLo
<1>5. CASE ComputeHiLo(s, i) = [r |-> s.r, m |-> s.m, mode |-> "host trap"]
  <2>1. \A a, b : /\ [r |-> a, m |-> b, mode |-> "host trap"].r = a
                  /\ [r |-> a, m |-> b, mode |-> "host trap"].mode = "host trap"
    OBVIOUS
  <2>2. ComputeHiLo(s, i).r = s.r /\ ComputeHiLo(s, i).mode = "host trap"
    BY <1>5, <2>1, Zenon
  <2> QED BY <2>1, <2>2, Zenon DEF Ends
<1>6. 0 \in GPReg
  BY RegNumbers
<1> QED BY <1>3, <1>4, <1>5, <1>6, CompleteEnds, Zenon

(* Branches and jumps.                                                     *)
LEMMA BranchEnds ==
    ASSUME NEW s, IsFile(s.r), NEW i, {i.rs, i.rt, i.rd} \subseteq GPReg
    PROVE  Ends(s, Branch(s, i))
<1>1. PICK link : link = IF i.op \in Links THEN {R31} ELSE IF i.op = "JALR" THEN {i.rd} ELSE {}
  OBVIOUS
<1>2. PICK r : r = [k \in DOMAIN s.r |-> IF k \in link THEN NextPC(s) ELSE s.r[k]]
  OBVIOUS
<1>3. LoadReg \notin link
  BY <1>1, RegNumbers DEF GPReg
<1>4. IsFile(r)
  BY <1>2, <1>3, RegNumbers DEF IsFile
<1>5. \E pcAfter : Branch(s, i) = Complete(s, r, s.m, pcAfter, 0, 0)
  BY <1>1, <1>2, Zenon DEF Branch
<1>6. 0 \in GPReg
  BY RegNumbers
<1> QED BY <1>4, <1>5, <1>6, CompleteEnds, Zenon

(* Loads and stores, which may trap on the address.                        *)
LEMMA LoadStoreEnds ==
    ASSUME NEW s, IsFile(s.r), NEW i, {i.rs, i.rt, i.rd} \subseteq GPReg
    PROVE  Ends(s, Load(s, i)) /\ Ends(s, Store(s, i))
<1>1. \/ \E b : Load(s, i) = RaiseException(s, "AddressError", b)
      \/ \E v : Load(s, i) = Complete(s, s.r, s.m, NextPC(s), i.rt, v)
  BY Zenon DEF Load
<1>2. \/ \E b : Store(s, i) = RaiseException(s, "AddressError", b)
      \/ \E w : Store(s, i) = Complete(s, s.r, w, NextPC(s), 0, 0)
  BY Zenon DEF Store
<1>3. i.rt \in GPReg /\ 0 \in GPReg
  BY RegNumbers
<1> QED BY <1>1, <1>2, <1>3, TrapEnds, CompleteEnds, Zenon

(* So any instruction completes or traps.                                  *)
LEMMA ExecuteEnds ==
    ASSUME NEW s, IsFile(s.r), NEW i \in Instructions
    PROVE  Ends(s, Execute(s, i))
<1>1. {i.rs, i.rt, i.rd} \subseteq GPReg
  BY MipsAssumption, Zenon
<1>2. \/ Execute(s, i) \in {Compute(s, i), ComputeHiLo(s, i), Branch(s, i), Load(s, i), Store(s, i)}
      \/ Execute(s, i) \in {RaiseException(s, "syscall", 0), RaiseException(s, "IllegalInstr", 0)}
  <2>1. \/ i.op \in RegisterOps \cup ImmediateOps \/ i.op \in HiLoOps
        \/ i.op \in Branches \cup Jumps \/ i.op \in Loads \/ i.op \in Stores
        \/ i.op = "SYSCALL" \/ i.op \in {"RES", "UNIMP"}
    BY DecodeAssumption, Zenon
  <2> QED BY <2>1 DEF Execute
<1> QED BY <1>1, <1>2, ComputeEnds, ComputeHiLoEnds, BranchEnds, LoadStoreEnds, TrapEnds, Zenon

(* A step of the machine executes an instruction, fails to fetch one, or   *)
(* ends a system call.                                                     *)
LEMMA MachineStep ==
    ASSUME RegisterInv, MachineNext
    PROVE  /\ RegisterInv'
           /\ mode = "user" => \E t : /\ registers' = t.r /\ memory' = t.m /\ mode' = t.mode
                                     /\ Ends(State, t)
<1>1. State.r = registers
  BY DEF State
<1>2. IsFile(State.r)
  BY <1>1, Zenon DEF RegisterInv
<1>3. ASSUME NEW i \in Instructions, OneInstruction(i)
      PROVE  \E t : /\ registers' = t.r /\ memory' = t.m /\ mode' = t.mode /\ Ends(State, t)
  BY <1>2, <1>3, ExecuteEnds, Zenon DEF OneInstruction, Becomes
<1>4. ASSUME FetchFault
      PROVE  \E t : /\ registers' = t.r /\ memory' = t.m /\ mode' = t.mode /\ Ends(State, t)
  BY <1>2, <1>4, TrapEnds, Zenon DEF FetchFault, Becomes
<1>5. ASSUME NEW v \in Results, SyscallReturns(v)
      PROVE  RegisterInv' /\ mode # "user"
  <2>1. PICK q : q = [registers EXCEPT ![2] = v]
    OBVIOUS
  <2>2. 2 \in GPReg
    BY DEF GPReg
  <2>3. IsFile(q)
    BY <2>1, <2>2, RegNumbers DEF IsFile, RegisterInv
  <2>4. registers' = IncreasePC(q) /\ mode # "user"
    BY <1>5, <2>1 DEF SyscallReturns, Becomes
  <2>5. IsFile(IncreasePC(q))
    BY <2>3, RegNumbers DEF IsFile, IncreasePC
  <2> QED BY <2>4, <2>5, Zenon DEF RegisterInv
<1>6. \A t : registers' = t.r /\ Ends(State, t) => RegisterInv'
  BY Zenon DEF Ends, RegisterInv
<1> QED BY <1>3, <1>4, <1>5, <1>6, Zenon DEF MachineNext

(* At the start no load is in progress.                                    *)
LEMMA MachineInitFile == MachineInit => RegisterInv
<1> HAVE MachineInit
<1>0. PICK v, w : registers = [k \in Reg |-> IF k = 1 THEN v ELSE IF k = 2 THEN w
                                          ELSE IF k = NextPCReg THEN 4 ELSE 0]
  BY DEF MachineInit, Reg
<1>1. registers[LoadReg] = 0
  <2>1. LoadReg # 1 /\ LoadReg # 2 /\ LoadReg # NextPCReg
    BY DEF LoadReg, NextPCReg
  <2>2. LoadReg \in Reg
    BY RegNumbers, Zenon
  <2> QED BY <1>0, <2>1, <2>2
<1>2. registers = [k \in Reg |-> registers[k]]
  BY <1>0
<1> QED BY <1>1, <1>2, RegNumbers DEF RegisterInv, IsFile

(* Traps are precise, for any program, any size of the memory and any      *)
(* width of a byte.                                                        *)
THEOREM TrapsRestart == MachineSpec => TrapsArePrecise
<1>1. ASSUME RegisterInv, [MachineNext]_machineVars
      PROVE  RegisterInv'
  BY <1>1, MachineStep, Zenon DEF machineVars, RegisterInv
<1> DEFINE Precise ==
      mode = "user" /\ mode' # "user" /\ mode' # "host trap" =>
         /\ memory' = memory
         /\ registers'[LoadReg] = 0
         /\ \A k \in GPReg \ {0} : registers'[k] =
              IF k = registers[LoadReg] THEN registers[LoadValueReg]
              ELSE registers[k]
         /\ \A k \in HiReg .. PrevPCReg : registers'[k] = registers[k]
<1>2. ASSUME RegisterInv, MachineNext, mode = "user", mode' # "user", mode' # "host trap"
      PROVE  Precise
  <2>1. PICK t : /\ registers' = t.r /\ memory' = t.m /\ mode' = t.mode /\ Ends(State, t)
    BY <1>2, MachineStep, Zenon
  <2>2. State.r = registers /\ State.m = memory
    BY DEF State
  <2> QED BY <1>2, <2>1, <2>2, Zenon DEF Ends
<1>3. RegisterInv /\ [MachineNext]_machineVars => [Precise]_machineVars
  BY <1>2, Zenon
<1> QED BY <1>1, <1>3, MachineInitFile, PTL DEF MachineSpec, TrapsArePrecise
=============================================================================
