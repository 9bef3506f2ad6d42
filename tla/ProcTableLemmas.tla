--------------------------- MODULE ProcTableLemmas --------------------------
(***************************************************************************)
(* An inductive invariant of ProcTable, for any size of the table and any  *)
(* number of processes, and the steps that only move a process on. It says *)
(* who is inside the mutex of a PCB, who has signalled its other two       *)
(* semaphores, and how parents and their children are linked. After that,  *)
(* how the lives of module Processes change with the steps, and why all    *)
(* others are collected when the main process of an orderly run exits.     *)
(***************************************************************************)
EXTENDS ProcTable, TLAPS

Creating == {"exec1", "execv1", "exec2", "execv2", "exec3", "exec4"}
Making == {"exec2", "execv2", "exec3", "exec4"}
Joining == {"join1", "join2", "join3", "join4", "join5"}
Exiting == {"exit1", "exit2", "exit3", "exit4", "exit5"}

(* Inside the mutex of the PCB ref[i].                                     *)
Inside == {"exec2", "execv2", "exec3", "join2", "exit2"}

(* The points at which the code is in a method of ref[i].                  *)
Uses == Making \cup {"join1", "join2", "join4", "join5", "exit1", "exit2"}

(* The semaphores of a PCB.                                                *)
Sems == [join : 0..1, exit : 0..1, mutex : 0..1]
Joinsem(o) == sem[o].join
Exitsem(o) == sem[o].exit
Mutex(o) == sem[o].mutex

Reaped(o) == pc[o] = "exit5" \/ (pc[o] = "exit4" /\ Exitsem(o) > 0)

(* The table and the PCB objects: each object that is not deleted has an   *)
(* entry of its own, and each entry in use has such an object.             *)
Structure ==
    /\ \A o \in Obj : pc[o] = "none" <=> o >= made
    /\ \A o \in Obj : o \in alive <=> pc[o] \notin {"none", "gone"}
    /\ \A o \in alive : processID[o] \in Slot /\ pcb[processID[o]] = o
    /\ \A n \in Slot : pcb[n] # NULL => pcb[n] \in alive /\ processID[pcb[n]] = n
    /\ \A o \in alive : o # Main =>
          /\ parent[o] \in Obj /\ pc[parent[o]] # "none"
          /\ parentID[o] \in Slot /\ parentID[o] = processID[parent[o]]

(* What process i has in its hands between two points.                     *)
HoldingAt(i) ==
    /\ ref[i] # NULL => ref[i] < made
    /\ pc[i] \in Uses => ref[i] \in Obj
    /\ pc[i] \in {"exec1", "execv1"} => made < MaxObj
    /\ pc[i] \in {"exec2", "execv2"} => pc[ref[i]] = "new"
    /\ pc[i] \in {"join1", "join2"} => ref[i] = i
    /\ pc[i] \in Joining => id[i] \in Slot
    /\ pc[i] \in {"join4", "join5"} => processID[ref[i]] = id[i]
    /\ pc[i] \in Exiting => i # Main /\ exitcode[i] # Junk

Holding == \A i \in Obj : HoldingAt(i)

(* bmsem excludes.                                                         *)
OneCreates ==
    /\ \A i \in Obj : pc[i] \in Creating => bmsem = 0
    /\ \A i, j \in Obj : pc[i] \in Creating /\ pc[j] \in Creating => i = j

(* The mutex of a PCB excludes.                                            *)
InsideAt(o) ==
    \A i \in Obj : pc[i] \in Inside /\ ref[i] = o =>
        /\ Mutex(o) = 0
        /\ \A j \in Obj : pc[j] \in Inside /\ ref[j] = o => j = i

OneInside == \A o \in Obj : InsideAt(o)

(* joinsem and exitsem of a process pass one unit on: from its Exit to one *)
(* Join, and from that Join back to the Exit.                              *)
UnitAt(o) ==
    /\ Joinsem(o) = 1 => pc[o] = "exit4" /\ Exitsem(o) = 0
    /\ Exitsem(o) = 1 => pc[o] = "exit4"
    /\ \A i \in Obj : pc[i] = "join5" /\ ref[i] = o =>
          /\ pc[o] = "exit4" /\ Joinsem(o) = 0 /\ Exitsem(o) = 0
          /\ \A j \in Obj : pc[j] = "join5" /\ ref[j] = o => j = i

OneUnit == \A o \in Obj : UnitAt(o)

(* Orderly programs: a child stays in kids until its parent lets it go     *)
(* (before that, the parent is still making it), and until then the parent *)
(* does not exit.                                                          *)
KeptByParent(o) ==
    o # Main /\ ~Reaped(o) =>
        \/ o \in kids[parent[o]]
        \/ pc[parent[o]] \in Making /\ ref[parent[o]] = o

FamilyAt(i) ==
    /\ \A o \in kids[i] : o \in alive /\ parent[o] = i /\ ~Reaped(o)
    /\ pc[i] \in Joining => pcb[id[i]] \in kids[i]
    /\ pc[i] \in {"join4", "join5"} => ref[i] = pcb[id[i]]
    /\ pc[i] \in Making => ref[i] \in alive /\ parent[ref[i]] = i /\ ~Reaped(ref[i])
    /\ pc[i] \in {"exit1", "exit2"} => ref[i] = parent[i]
    /\ pc[i] \in Exiting \cup {"none", "gone"} => kids[i] = {}

Families ==
    /\ machine \in {"up", "halted"}
    /\ \A o \in alive : KeptByParent(o)
    /\ \A i \in Obj : FamilyAt(i)

(* The inductive invariant.                                                *)
IInv ==
    /\ TypeOK /\ Structure /\ Holding
    /\ OneCreates /\ OneInside /\ OneUnit
    /\ Orderly => Families

(* The leaves below are for the SMT solver, unless they say otherwise.     *)


(* The initial state satisfies it.                                         *)
LEMMA InitIInv == Init => IInv
<1> SUFFICES ASSUME Init PROVE IInv
  BY Zenon
<1> USE ProcTableAssumption DEF Slot, Obj, Main
<1>1. TypeOK
  <2>1. sem \in [Obj -> [join : 0..1, exit : 0..1, mutex : 0..1]]
    BY DEF Init, NewSems
  <2>2. pcb \in [Slot -> Obj \cup {NULL}] /\ made \in 1 .. MaxObj /\ alive \subseteq 0 .. made - 1
    BY DEF Init
  <2>3. /\ processID \in [Obj -> Slot \cup {NULL}] /\ parentID \in [Obj -> Slot \cup {-1, NULL}]
        /\ exitcode \in [Obj -> Code \cup {Junk}] /\ pc \in [Obj -> PC]
    BY DEF Init, PC
  <2>4. /\ id \in [Obj -> Slot \cup {NULL}] /\ ref \in [Obj -> Obj \cup {NULL}]
        /\ parent \in [Obj -> Obj \cup {NULL}] /\ kids \in [Obj -> SUBSET Obj]
    BY Zenon DEF Init
  <2>5. bmsem \in 0..1 /\ machine \in {"up", "halted", "null_pointer", "freed_pcb"}
    BY DEF Init
  <2>6. discipline \in Discipline
    BY Zenon DEF Init
  <2> QED BY <2>1, <2>2, <2>3, <2>4, <2>5, <2>6, Zenon DEF TypeOK
<1>2. /\ \A o \in Obj : /\ pc[o] = IF o = Main THEN "user" ELSE "none"
                        /\ ref[o] = NULL /\ kids[o] = {}
      /\ made = 1 /\ alive = {Main} /\ machine = "up"
      /\ processID[Main] = 0 /\ pcb[0] = Main /\ 0 \in Slot
      /\ \A n \in Slot : n # 0 => pcb[n] = NULL
  BY DEF Init
<1>3. \A o \in Obj : Joinsem(o) = 0 /\ Exitsem(o) = 0
  BY Zenon DEF Init, NewSems, Joinsem, Exitsem
<1>4. Structure
  BY <1>2 DEF Structure
<1>5. Holding
  BY <1>2 DEF Holding, HoldingAt, Uses, Making, Joining, Exiting
<1>6. OneCreates /\ OneInside
  BY <1>2 DEF OneCreates, OneInside, InsideAt, Creating, Inside
<1>7. OneUnit
  BY <1>2, <1>3 DEF OneUnit, UnitAt
<1>8. Families
  BY <1>2 DEF Families, KeptByParent, FamilyAt, Reaped, Joining, Making, Exiting
<1> QED BY <1>1, <1>4, <1>5, <1>6, <1>7, <1>8 DEF IInv

(* The parts of the invariant.                                             *)
LEMMA InvParts ==
    ASSUME IInv
    PROVE  /\ TypeOK /\ Structure /\ Holding
           /\ OneCreates /\ OneInside /\ OneUnit
           /\ Orderly => Families
BY Zenon DEF IInv

(* They make up the invariant of the next state.                           *)
LEMMA InvHolds ==
    ASSUME TypeOK', Structure', Holding', OneCreates', OneInside', OneUnit',
           Orderly' => Families'
    PROVE  IInv'
BY Zenon DEF IInv

(* Facts about types that are used often.                                  *)
LEMMA AliveAreObjects ==
    ASSUME TypeOK
    PROVE  alive \subseteq Obj /\ made \in Nat /\ NULL \notin Obj /\ NULL \notin Slot
BY ProcTableAssumption DEF TypeOK, Obj, Slot
-----------------------------------------------------------------------------
(* The semaphores of o hold at most one unit.                              *)
LEMMA Binary ==
    ASSUME IInv, NEW o \in Obj
    PROVE  Joinsem(o) \in 0..1 /\ Exitsem(o) \in 0..1 /\ Mutex(o) \in 0..1
BY InvParts, Zenon DEF TypeOK, Joinsem, Exitsem, Mutex

(* No semaphore is used.                                                   *)
LEMMA SemKept ==
    ASSUME IInv, sem' = sem
    PROVE  /\ sem' \in [Obj -> Sems]
           /\ \A q \in Obj : /\ Joinsem(q)' = Joinsem(q) /\ Exitsem(q)' = Exitsem(q)
                             /\ Mutex(q)' = Mutex(q)
BY InvParts, Zenon DEF TypeOK, Sems, Joinsem, Exitsem, Mutex

(* P() on the mutex of o.                                                  *)
LEMMA TakeMutex ==
    ASSUME IInv, NEW o \in Obj, sem[o]["mutex"] > 0,
           sem' = [sem EXCEPT ![o]["mutex"] = @ - 1]
    PROVE  /\ sem' \in [Obj -> Sems] /\ Mutex(o) = 1 /\ Mutex(o)' = 0
           /\ \A q \in Obj : q # o => Mutex(q)' = Mutex(q)
           /\ \A q \in Obj : Joinsem(q)' = Joinsem(q) /\ Exitsem(q)' = Exitsem(q)
<1>1. sem \in [Obj -> Sems]
  BY InvParts, Zenon DEF TypeOK, Sems
<1> QED BY <1>1 DEF Sems, Joinsem, Exitsem, Mutex

(* V() on the mutex of o.                                                  *)
LEMMA GiveMutex ==
    ASSUME IInv, NEW o \in Obj, Mutex(o) = 0, V(o, "mutex")
    PROVE  /\ sem' \in [Obj -> Sems]
           /\ \A q \in Obj : q # o => Mutex(q)' = Mutex(q)
           /\ \A q \in Obj : Joinsem(q)' = Joinsem(q) /\ Exitsem(q)' = Exitsem(q)
<1>1. sem \in [Obj -> Sems] /\ sem' = [sem EXCEPT ![o]["mutex"] = @ + 1]
  BY InvParts, Zenon DEF TypeOK, Sems, V
<1> QED BY <1>1 DEF Sems, Joinsem, Exitsem, Mutex

(* P() on the joinsem of o.                                                *)
LEMMA TakeJoin ==
    ASSUME IInv, NEW o \in Obj, sem[o]["join"] > 0,
           sem' = [sem EXCEPT ![o]["join"] = @ - 1]
    PROVE  /\ sem' \in [Obj -> Sems] /\ Joinsem(o) = 1 /\ Joinsem(o)' = 0
           /\ \A q \in Obj : q # o => Joinsem(q)' = Joinsem(q)
           /\ \A q \in Obj : Mutex(q)' = Mutex(q) /\ Exitsem(q)' = Exitsem(q)
<1>1. sem \in [Obj -> Sems]
  BY InvParts, Zenon DEF TypeOK, Sems
<1> QED BY <1>1 DEF Sems, Joinsem, Exitsem, Mutex

(* V() on the joinsem of o.                                                *)
LEMMA GiveJoin ==
    ASSUME IInv, NEW o \in Obj, Joinsem(o) = 0, V(o, "join")
    PROVE  /\ sem' \in [Obj -> Sems] /\ Joinsem(o)' = 1
           /\ \A q \in Obj : q # o => Joinsem(q)' = Joinsem(q)
           /\ \A q \in Obj : Mutex(q)' = Mutex(q) /\ Exitsem(q)' = Exitsem(q)
<1>1. sem \in [Obj -> Sems] /\ sem' = [sem EXCEPT ![o]["join"] = @ + 1]
  BY InvParts, Zenon DEF TypeOK, Sems, V
<1> QED BY <1>1 DEF Sems, Joinsem, Exitsem, Mutex

(* P() on the exitsem of o.                                                *)
LEMMA TakeExit ==
    ASSUME IInv, NEW o \in Obj, sem[o]["exit"] > 0,
           sem' = [sem EXCEPT ![o]["exit"] = @ - 1]
    PROVE  /\ sem' \in [Obj -> Sems] /\ Exitsem(o) = 1 /\ Exitsem(o)' = 0
           /\ \A q \in Obj : q # o => Exitsem(q)' = Exitsem(q)
           /\ \A q \in Obj : Mutex(q)' = Mutex(q) /\ Joinsem(q)' = Joinsem(q)
<1>1. sem \in [Obj -> Sems]
  BY InvParts, Zenon DEF TypeOK, Sems
<1> QED BY <1>1 DEF Sems, Joinsem, Exitsem, Mutex

(* V() on the exitsem of o.                                                *)
LEMMA GiveExit ==
    ASSUME IInv, NEW o \in Obj, Exitsem(o) = 0, V(o, "exit")
    PROVE  /\ sem' \in [Obj -> Sems] /\ Exitsem(o)' = 1
           /\ \A q \in Obj : q # o => Exitsem(q)' = Exitsem(q)
           /\ \A q \in Obj : Mutex(q)' = Mutex(q) /\ Joinsem(q)' = Joinsem(q)
<1>1. sem \in [Obj -> Sems] /\ sem' = [sem EXCEPT ![o]["exit"] = @ + 1]
  BY InvParts, Zenon DEF TypeOK, Sems, V
<1> QED BY <1>1 DEF Sems, Joinsem, Exitsem, Mutex
-----------------------------------------------------------------------------
(* What a step leaves alone.  First, process i goes to another point.      *)
LEMMA GoTo ==
    ASSUME IInv, NEW i \in Obj, NEW to \in PC, Go(i, to)
    PROVE  /\ pc' \in [Obj -> PC]
           /\ pc'[i] = to
           /\ \A q \in Obj : q # i => pc'[q] = pc[q]
BY InvParts DEF TypeOK, Go

(* No object is made or deleted.                                           *)
LEMMA StructureKept ==
    ASSUME IInv, UNCHANGED <<pcb, made, alive, processID, parentID, parent>>,
           \A o \in Obj : /\ pc'[o] = "none" <=> pc[o] = "none"
                          /\ pc'[o] = "gone" <=> pc[o] = "gone"
    PROVE  Structure'
BY InvParts DEF TypeOK, Structure

(* A step of process i that was not waiting to be started.                 *)
LEMMA HoldingKept ==
    ASSUME IInv, NEW i \in Obj, UNCHANGED <<made, processID>>,
           \A q \in Obj : q # i => /\ pc'[q] = pc[q] /\ ref'[q] = ref[q]
                                   /\ id'[q] = id[q] /\ exitcode'[q] = exitcode[q],
           pc[i] # "new", HoldingAt(i)'
    PROVE  Holding'
<1> SUFFICES ASSUME NEW q \in Obj, q # i PROVE HoldingAt(q)'
  BY Zenon DEF Holding
<1>1. HoldingAt(q) /\ ref[q] \in Obj \cup {NULL}
  BY InvParts, Zenon DEF Holding, TypeOK
<1>2. pc[q] \in {"exec2", "execv2"} => ref[q] \in Obj /\ pc'[ref[q]] = "new"
  BY <1>1, Zenon DEF HoldingAt, Uses, Making
<1> QED BY <1>1, <1>2 DEF HoldingAt

(* Nobody comes to, or leaves, the part of Exec that bmsem protects.       *)
LEMMA CreatesKept ==
    ASSUME IInv, bmsem' = bmsem,
           \A q \in Obj : pc'[q] \in Creating => pc[q] \in Creating
    PROVE  OneCreates'
BY InvParts, Zenon DEF OneCreates

(* Nobody comes to a mutex.                                                *)
LEMMA InsideKept ==
    ASSUME IInv,
           \A q \in Obj : pc'[q] \in Inside => pc[q] \in Inside /\ ref'[q] = ref[q],
           \A o \in Obj : Mutex(o)' = Mutex(o)
    PROVE  OneInside'
<1> SUFFICES ASSUME NEW o \in Obj PROVE InsideAt(o)'
  BY Zenon DEF OneInside
<1>1. InsideAt(o) /\ Mutex(o)' = Mutex(o)
  BY InvParts, Zenon DEF OneInside
<1> QED BY <1>1, Zenon DEF InsideAt

(* Process i gets the mutex of o.                                          *)
LEMMA MutexTaken ==
    ASSUME IInv, NEW i \in Obj, NEW o \in Obj,
           \A q \in Obj : q # i => pc'[q] = pc[q] /\ ref'[q] = ref[q],
           ref'[i] = o, Mutex(o) = 1, Mutex(o)' = 0,
           \A q \in Obj : q # o => Mutex(q)' = Mutex(q)
    PROVE  OneInside'
<1> SUFFICES ASSUME NEW x \in Obj PROVE InsideAt(x)'
  BY Zenon DEF OneInside
<1>1. InsideAt(x) /\ (x # o => Mutex(x)' = Mutex(x))
  BY InvParts, Zenon DEF OneInside
<1> QED BY <1>1 DEF InsideAt

(* Process i gives it back.                                                *)
LEMMA MutexGiven ==
    ASSUME IInv, NEW i \in Obj, NEW o \in Obj, pc[i] \in Inside, ref[i] = o,
           pc'[i] \notin Inside,
           \A q \in Obj : q # i => pc'[q] = pc[q] /\ ref'[q] = ref[q],
           \A q \in Obj : q # o => Mutex(q)' = Mutex(q)
    PROVE  OneInside'
<1> SUFFICES ASSUME NEW x \in Obj PROVE InsideAt(x)'
  BY Zenon DEF OneInside
<1>1. InsideAt(x) /\ (x # o => Mutex(x)' = Mutex(x))
  BY InvParts, Zenon DEF OneInside
<1> QED BY <1>1 DEF InsideAt

(* The unit of joinsem and exitsem does not move.                          *)
LEMMA UnitKept ==
    ASSUME IInv,
           \A o \in Obj : /\ Joinsem(o)' = Joinsem(o) /\ Exitsem(o)' = Exitsem(o)
                          /\ pc[o] = "exit4" => pc'[o] = "exit4",
           \A q \in Obj : pc'[q] = "join5" => pc[q] = "join5" /\ ref'[q] = ref[q]
    PROVE  OneUnit'
<1> SUFFICES ASSUME NEW o \in Obj PROVE UnitAt(o)'
  BY Zenon DEF OneUnit
<1>1. UnitAt(o) /\ Joinsem(o)' = Joinsem(o) /\ Exitsem(o)' = Exitsem(o)
  BY InvParts, Zenon DEF OneUnit
<1> QED BY <1>1 DEF UnitAt

(* The unit of o moves, or comes to be; nothing else does.                 *)
LEMMA UnitMoves ==
    ASSUME IInv, NEW o \in Obj, UnitAt(o)',
           \A q \in Obj : q # o => /\ Joinsem(q)' = Joinsem(q) /\ Exitsem(q)' = Exitsem(q)
                                   /\ pc[q] = "exit4" => pc'[q] = "exit4",
           \A q \in Obj : pc'[q] = "join5" /\ ref'[q] # o => pc[q] = "join5" /\ ref'[q] = ref[q]
    PROVE  OneUnit'
<1> SUFFICES ASSUME NEW x \in Obj, x # o PROVE UnitAt(x)'
  BY Zenon DEF OneUnit
<1>1. UnitAt(x) /\ Joinsem(x)' = Joinsem(x) /\ Exitsem(x)' = Exitsem(x)
  BY InvParts, Zenon DEF OneUnit
<1> QED BY <1>1 DEF UnitAt

(* Who lets go of its child stays the same.                                *)
LEMMA ReapedKept ==
    ASSUME NEW o, Exitsem(o)' = Exitsem(o),
           pc'[o] = pc[o] \/ (pc[o] \notin {"exit4", "exit5"} /\ pc'[o] \notin {"exit4", "exit5"})
    PROVE  Reaped(o)' <=> Reaped(o)
BY Zenon DEF Reaped

(* A step of process i that neither starts nor lets go of a child.         *)
LEMMA FamiliesKept ==
    ASSUME IInv, Orderly, NEW i \in Obj, UNCHANGED <<pcb, alive, parent, kids, machine>>,
           \A q \in Obj : q # i => pc'[q] = pc[q] /\ ref'[q] = ref[q] /\ id'[q] = id[q],
           \A o \in Obj : Reaped(o)' <=> Reaped(o),
           pc[i] \in Making => pc'[i] \in Making /\ ref'[i] = ref[i],
           FamilyAt(i)'
    PROVE  Families'
<1>0. alive \subseteq Obj /\ kids \in [Obj -> SUBSET Obj] /\ Families
  BY AliveAreObjects, InvParts, Zenon DEF TypeOK
<1>1. ASSUME NEW o \in alive PROVE KeptByParent(o)'
  <2>1. KeptByParent(o) /\ o \in Obj /\ (o # Main => parent[o] \in Obj)
    BY <1>0, InvParts, Zenon DEF Families, Structure
  <2> QED BY <2>1, Zenon DEF KeptByParent
<1>2. ASSUME NEW q \in Obj, q # i PROVE FamilyAt(q)'
  <2>1. FamilyAt(q) /\ \A o \in kids[q] : o \in Obj
    BY <1>0, SMTT(30) DEF Families
  <2> QED BY <1>0, <1>2, <2>1, Zenon DEF FamilyAt
<1> QED BY <1>0, <1>1, <1>2, Zenon DEF Families

(* A step of process i that changes only what is its own and a semaphore.  *)
LEMMA LocalStep ==
    ASSUME IInv, NEW i \in Obj,
           UNCHANGED <<pcb, made, alive, processID, parentID, parent, kids, machine, discipline>>,
           pc' \in [Obj -> PC], bmsem' \in 0..1, sem' \in [Obj -> Sems],
           id' \in [Obj -> Slot \cup {NULL}], ref' \in [Obj -> Obj \cup {NULL}],
           exitcode' \in [Obj -> Code \cup {Junk}],
           \A q \in Obj : q # i => /\ pc'[q] = pc[q] /\ ref'[q] = ref[q]
                                   /\ id'[q] = id[q] /\ exitcode'[q] = exitcode[q],
           pc[i] \notin {"none", "gone", "new"}, pc'[i] \notin {"none", "gone"},
           HoldingAt(i)', OneCreates', OneInside', OneUnit',
           Orderly => /\ \A o \in Obj : Reaped(o)' <=> Reaped(o)
                      /\ pc[i] \in Making => pc'[i] \in Making /\ ref'[i] = ref[i]
                      /\ FamilyAt(i)'
    PROVE  IInv'
<1>1. TypeOK'
  BY InvParts, SMTT(30) DEF TypeOK, Sems
<1>2. Structure'
  BY StructureKept, Zenon
<1>3. Holding'
  BY HoldingKept, Zenon
<1>4. Orderly' => Families'
  BY FamiliesKept, Zenon DEF Orderly
<1> QED BY <1>1, <1>2, <1>3, <1>4, InvHolds, SMTT(30)

(* Nothing but the machine stops.                                          *)
LEMMA StopStep ==
    ASSUME IInv, UNCHANGED <<table, sem, pc, locals, kids, discipline>>,
           machine' \in {"up", "halted", "null_pointer", "freed_pcb"},
           Orderly => machine' \in {"up", "halted"}
    PROVE  IInv'
<1>1. /\ UNCHANGED <<pcb, bmsem, made, alive, processID, parentID, exitcode, parent>>
      /\ UNCHANGED <<sem, pc, id, ref, kids, discipline>>
  BY Zenon DEF table, locals
<1>2. TypeOK'
  BY <1>1, InvParts, Zenon DEF TypeOK
<1>3. Structure'
  BY <1>1, StructureKept, Zenon
<1>4. Holding'
  <2>1. \A i \in Obj : HoldingAt(i)
    BY InvParts, Zenon DEF Holding
  <2>2. ASSUME NEW i \in Obj PROVE HoldingAt(i)'
    BY <1>1, <2>1, Zenon DEF HoldingAt
  <2> QED BY <2>2, Zenon DEF Holding
<1>5. OneCreates'
  BY <1>1, CreatesKept, Zenon
<1>6. /\ \A q \in Obj : Joinsem(q)' = Joinsem(q) /\ Exitsem(q)' = Exitsem(q)
      /\ \A q \in Obj : Mutex(q)' = Mutex(q)
  BY <1>1, SemKept, Zenon
<1>7. OneInside' /\ OneUnit'
  BY <1>1, <1>6, InsideKept, UnitKept, Zenon
<1>8. ASSUME Orderly' PROVE Families'
  <2>1. Orderly /\ Families /\ alive \subseteq Obj /\ kids \in [Obj -> SUBSET Obj]
    BY <1>1, <1>8, AliveAreObjects, InvParts, Zenon DEF TypeOK, Orderly
  <2>2. \A o \in Obj : Reaped(o)' <=> Reaped(o)
    BY <1>1, <1>6, ReapedKept, Zenon
  <2>3. ASSUME NEW o \in alive PROVE KeptByParent(o)'
    <3>1. KeptByParent(o)
      BY <2>1, SMTT(30) DEF Families
    <3> QED BY <1>1, <2>1, <2>2, <3>1, Zenon DEF KeptByParent
  <2>4. ASSUME NEW i \in Obj PROVE FamilyAt(i)'
    <3>1. FamilyAt(i) /\ \A o \in kids[i] : o \in Obj
      BY <2>1, Zenon DEF Families
    <3> QED BY <1>1, <2>1, <2>2, <3>1, Zenon DEF FamilyAt
  <2> QED BY <1>1, <2>1, <2>3, <2>4, Zenon DEF Families
<1> QED BY <1>2, <1>3, <1>4, <1>5, <1>7, <1>8, InvHolds, Zenon

(* A pointer is followed that is not valid.                                *)
LEMMA CrashStep ==
    ASSUME IInv, NEW o, Crash(o), Orderly => Valid(o), UNCHANGED discipline
    PROVE  IInv'
BY StopStep, Zenon DEF Crash
-----------------------------------------------------------------------------
(* The points between which a process only uses a semaphore.               *)
Quiet(from, to) ==
    \/ from \in {"start1", "start2"} /\ to = "user"
    \/ from = "exec3" /\ to = "exec4"
    \/ from = "join1" /\ to = "join2"
    \/ from = "join2" /\ to = "join3"
    \/ from = "join4" /\ to = "join5"
    \/ from = "exit1" /\ to = "exit2"
    \/ from = "exit2" /\ to = "exit3"
    \/ from = "exit3" /\ to = "exit4"
    \/ from = "exit4" /\ to = "exit5"

(* Such steps keep all but what is said about that semaphore.              *)
LEMMA QuietStep ==
    ASSUME IInv, NEW i \in Obj, NEW to \in PC, Go(i, to), Quiet(pc[i], to),
           UNCHANGED <<table, locals, kids, machine, discipline>>,
           sem' \in [Obj -> Sems], \A o \in Obj : Reaped(o)' <=> Reaped(o),
           OneInside', OneUnit'
    PROVE  IInv'
<1>1. /\ pc' \in [Obj -> PC] /\ pc'[i] = to
      /\ \A q \in Obj : q # i => pc'[q] = pc[q]
  BY GoTo, Zenon
<1>2. /\ UNCHANGED <<pcb, bmsem, made, alive, processID, parentID, exitcode, parent>>
      /\ UNCHANGED <<id, ref, kids, machine, discipline>>
  BY SMTT(30) DEF table, locals
<1>3. /\ bmsem' \in 0..1 /\ id' \in [Obj -> Slot \cup {NULL}]
      /\ ref' \in [Obj -> Obj \cup {NULL}] /\ exitcode' \in [Obj -> Code \cup {Junk}]
  BY <1>2, InvParts, Zenon DEF TypeOK
<1>4. pc[i] \notin {"none", "gone", "new"} /\ to \notin {"none", "gone"}
  BY SMTT(30) DEF Quiet
<1>5. HoldingAt(i)'
  <2>1. HoldingAt(i) /\ to \notin {"exec1", "execv1", "exec2", "execv2"}
    BY InvParts, Zenon DEF Quiet, Holding
  <2>2. /\ to \in Uses => pc[i] \in Uses
        /\ to \in {"join1", "join2"} => pc[i] \in {"join1", "join2"}
        /\ to \in Joining => pc[i] \in Joining
        /\ to \in {"join4", "join5"} => pc[i] \in {"join4", "join5"}
        /\ to \in Exiting => pc[i] \in Exiting
    BY Zenon DEF Quiet, Uses, Making, Joining, Exiting
  <2> QED BY <1>1, <1>2, <2>1, <2>2, Zenon DEF HoldingAt
<1>6. OneCreates'
  <2>1. to \in Creating => pc[i] \in Creating
    BY SMTT(30) DEF Quiet, Creating
  <2> QED BY <1>1, <1>2, <2>1, CreatesKept, Zenon
<1>7. ASSUME Orderly
      PROVE  (pc[i] \in Making => to \in Making) /\ FamilyAt(i)'
  <2>1. FamilyAt(i) /\ (\A o \in kids[i] : o \in Obj)
    BY <1>7, InvParts, Zenon DEF Families, TypeOK
  <2>2. /\ to \in Joining => pc[i] \in Joining
        /\ to \in {"join4", "join5"} => pc[i] \in {"join4", "join5"}
        /\ to \in Making <=> pc[i] \in Making
        /\ to \in {"exit1", "exit2"} => pc[i] \in {"exit1", "exit2"}
        /\ to \in Exiting \cup {"none", "gone"} => pc[i] \in Exiting
    BY Zenon DEF Quiet, Making, Joining, Exiting
  <2>3. pc[i] \in Making => ref[i] \in Obj
    BY InvParts, Zenon DEF Holding, HoldingAt, Uses
  <2> QED BY <1>1, <1>2, <2>1, <2>2, <2>3, SMTT(30) DEF FamilyAt
<1> QED BY <1>1, <1>2, <1>3, <1>4, <1>5, <1>6, <1>7, LocalStep, Zenon

(* StartProcess_1 and StartProcess_2 enter the program.                    *)
LEMMA StartStep ==
    ASSUME IInv, NEW i \in Obj, StartProcess_1(i) \/ StartProcess_2(i), UNCHANGED discipline
    PROVE  IInv'
<1>1. /\ pc[i] \in {"start1", "start2"} /\ Go(i, "user")
      /\ UNCHANGED <<table, sem, locals, kids, machine>>
  BY Zenon DEF StartProcess_1, StartProcess_2, At
<1>2. "user" \in PC /\ Quiet(pc[i], "user") /\ ref' = ref
  BY <1>1, Zenon DEF PC, Quiet, locals
<1>3. pc'[i] = "user" /\ \A q \in Obj : q # i => pc'[q] = pc[q]
  BY <1>1, <1>2, GoTo, Zenon
<1>4. /\ sem' \in [Obj -> Sems]
      /\ \A q \in Obj : /\ Joinsem(q)' = Joinsem(q) /\ Exitsem(q)' = Exitsem(q)
                        /\ Mutex(q)' = Mutex(q)
  BY <1>1, SemKept, SMTT(30)
<1>5. OneInside'
  BY <1>2, <1>3, <1>4, InsideKept, SMTT(30) DEF Inside
<1>6. OneUnit'
  BY <1>1, <1>2, <1>3, <1>4, UnitKept, SMTT(30)
<1>7. \A o \in Obj : Reaped(o)' <=> Reaped(o)
  BY <1>1, <1>3, <1>4, ReapedKept, Zenon
<1> QED BY <1>1, <1>2, <1>4, <1>5, <1>6, <1>7, QuietStep, Zenon

(* Sleepers in IncNumWait and DecNumWait get the mutex.                    *)
LEMMA MutexStep ==
    ASSUME IInv, NEW i \in Obj, JoinMutex(i) \/ ExitMutex(i), UNCHANGED discipline
    PROVE  IInv'
<1>1. PICK to \in {"join2", "exit2"} :
         /\ Quiet(pc[i], to) /\ pc[i] \in {"join1", "exit1"}
         /\ Take(i, ref[i], "mutex", to)
         /\ UNCHANGED <<table, locals, kids, machine>>
  BY Zenon DEF JoinMutex, ExitMutex, At, Quiet
<1>2. PICK o \in Obj : o = ref[i]
  BY <1>1, InvParts, Zenon DEF Holding, HoldingAt, Uses
<1>3. to \in PC /\ ref' = ref
  BY <1>1, Zenon DEF PC, locals
<1>4. Go(i, to) /\ sem[o]["mutex"] > 0 /\ sem' = [sem EXCEPT ![o]["mutex"] = @ - 1]
  BY <1>1, <1>2, Zenon DEF Take
<1>5. /\ sem' \in [Obj -> Sems] /\ Mutex(o) = 1 /\ Mutex(o)' = 0
      /\ \A q \in Obj : q # o => Mutex(q)' = Mutex(q)
      /\ \A q \in Obj : Joinsem(q)' = Joinsem(q) /\ Exitsem(q)' = Exitsem(q)
  BY <1>4, TakeMutex, Zenon
<1>6. pc'[i] = to /\ \A q \in Obj : q # i => pc'[q] = pc[q]
  BY <1>3, <1>4, GoTo, SMTT(30)
<1>7. OneInside'
  BY <1>2, <1>3, <1>5, <1>6, MutexTaken, SMTT(30)
<1>8. OneUnit'
  BY <1>1, <1>3, <1>5, <1>6, UnitKept, SMTT(30)
<1>9. \A q \in Obj : Reaped(q)' <=> Reaped(q)
  BY <1>1, <1>5, <1>6, ReapedKept, Zenon
<1> QED BY <1>1, <1>3, <1>4, <1>5, <1>7, <1>8, <1>9, QuietStep, ZenonT(30)

(* The V() at the end of IncNumWait and DecNumWait, and of Exec.           *)
LEMMA UnlockStep ==
    ASSUME IInv, NEW i \in Obj,
           NEW to \in {"exec4", "join3", "exit3"},
           Quiet(pc[i], to), V(ref[i], "mutex"), Go(i, to),
           UNCHANGED <<table, locals, kids, machine, discipline>>
    PROVE  IInv'
<1>1. /\ to \in PC /\ pc[i] \in Inside /\ to \notin Inside /\ ref' = ref
      /\ pc[i] \notin {"exit4", "exit5"}
  BY SMTT(30) DEF Quiet, PC, Inside, locals
<1>2. PICK o \in Obj : o = ref[i]
  BY <1>1, InvParts, SMTT(30) DEF Inside, Holding, HoldingAt, Uses, Making
<1>3. Mutex(o) = 0
  BY <1>1, <1>2, InvParts, Zenon DEF OneInside, InsideAt
<1>4. /\ sem' \in [Obj -> Sems]
      /\ \A q \in Obj : q # o => Mutex(q)' = Mutex(q)
      /\ \A q \in Obj : Joinsem(q)' = Joinsem(q) /\ Exitsem(q)' = Exitsem(q)
  BY <1>2, <1>3, GiveMutex, Zenon
<1>5. pc'[i] = to /\ \A q \in Obj : q # i => pc'[q] = pc[q]
  BY <1>1, GoTo, SMTT(30)
<1>6. OneInside'
  BY <1>1, <1>2, <1>4, <1>5, MutexGiven, SMTT(30)
<1>7. OneUnit'
  BY <1>1, <1>4, <1>5, UnitKept, SMTT(30)
<1>8. \A q \in Obj : Reaped(q)' <=> Reaped(q)
  BY <1>1, <1>4, <1>5, ReapedKept, SMTT(30)
<1> QED BY <1>1, <1>4, <1>6, <1>7, <1>8, QuietStep, ZenonT(30)

(* The parent of an orderly process is there until it lets the child go.   *)
LEMMA ParentThere ==
    ASSUME IInv, Orderly, NEW o \in alive, o # Main, ~Reaped(o)
    PROVE  Valid(parent[o]) /\ pcb[parentID[o]] = parent[o]
<1>1. /\ parent[o] \in Obj /\ pc[parent[o]] # "none" /\ parentID[o] = processID[parent[o]]
      /\ NULL \notin Obj
  BY AliveAreObjects, InvParts, Zenon DEF Structure
<1>2. KeptByParent(o) /\ FamilyAt(parent[o])
  BY <1>1, InvParts, Zenon DEF Families
<1>3. pc[parent[o]] # "gone"
  BY <1>2, Zenon DEF KeptByParent, FamilyAt, Making
<1> QED BY <1>1, <1>3, InvParts, Zenon DEF Structure, Valid

(* IncNumWait.                                                             *)
LEMMA IncNumWaitStep ==
    ASSUME IInv, NEW i \in Obj, IncNumWait(i), UNCHANGED discipline
    PROVE  IInv'
BY UnlockStep, Zenon DEF IncNumWait, At, Quiet

(* DecNumWait: the parent of an orderly process is still there.            *)
LEMMA DecNumWaitStep ==
    ASSUME IInv, NEW i \in Obj, DecNumWait(i), UNCHANGED discipline
    PROVE  IInv'
<1>1. pc[i] = "exit2"
  BY SMTT(30) DEF DecNumWait, At
<1>2. CASE V(ref[i], "mutex") /\ Go(i, "exit3") /\ UNCHANGED <<table, locals, kids, machine>>
  BY <1>1, <1>2, UnlockStep, Zenon DEF Quiet
<1>3. CASE Crash(ref[i])
  <2>1. ASSUME Orderly PROVE Valid(ref[i])
    <3>1. i \in alive /\ i # Main /\ ~Reaped(i) /\ ref[i] = parent[i]
      BY <1>1, <2>1, InvParts, SMTT(30)
             DEF Structure, Families, FamilyAt, Holding, HoldingAt, Exiting, Reaped
    <3> QED BY <2>1, <3>1, ParentThere, SMTT(30)
  <2> QED BY <1>3, <2>1, CrashStep, SMTT(30)
<1> QED BY <1>2, <1>3, SMTT(30) DEF DecNumWait

(* The child that an orderly process is making is there.                   *)
LEMMA MadeIsThere ==
    ASSUME IInv, Orderly, NEW i \in Obj, pc[i] \in Making
    PROVE  Valid(ref[i])
<1>1. NULL \notin alive /\ FamilyAt(i)
  BY AliveAreObjects, InvParts, Zenon DEF Families
<1> QED BY <1>1, Zenon DEF FamilyAt, Valid

(* The end of PCB::Exec.                                                   *)
LEMMA ExecUnlockStep ==
    ASSUME IInv, NEW i \in Obj, ExecUnlock(i), UNCHANGED discipline
    PROVE  IInv'
<1>1. pc[i] = "exec3"
  BY Zenon DEF ExecUnlock, At
<1>2. CASE V(ref[i], "mutex") /\ Go(i, "exec4") /\ UNCHANGED <<table, locals, kids, machine>>
  BY <1>1, <1>2, UnlockStep, Zenon DEF Quiet
<1>3. CASE Crash(ref[i])
  <2>1. Orderly => Valid(ref[i])
    BY <1>1, MadeIsThere, SMTT(30) DEF Making
  <2> QED BY <1>3, <2>1, CrashStep, Zenon
<1> QED BY <1>2, <1>3, SMTT(30) DEF ExecUnlock
-----------------------------------------------------------------------------
(* A process that is not gone finds itself in its entry.                   *)
LEMMA OwnEntry ==
    ASSUME IInv, NEW i \in Obj, pc[i] \notin {"none", "gone"}
    PROVE  i \in alive /\ processID[i] \in Slot /\ Own(i) = i
BY InvParts, Zenon DEF Structure, Own

(* While the unit of o is in a semaphore, or Exit has not come to it,      *)
(* no Join has it.                                                         *)
LEMMA NobodyHasUnit ==
    ASSUME IInv, NEW o \in Obj, pc[o] # "exit4" \/ Joinsem(o) = 1 \/ Exitsem(o) = 1
    PROVE  \A q \in Obj : pc[q] = "join5" => ref[q] # o
<1>1. UnitAt(o)
  BY InvParts, Zenon DEF OneUnit
<1> QED BY <1>1 DEF UnitAt

(* Before exit4 there is no unit.                                          *)
LEMMA NoUnit ==
    ASSUME IInv, NEW o \in Obj, pc[o] # "exit4"
    PROVE  Joinsem(o) = 0 /\ Exitsem(o) = 0
<1>1. UnitAt(o) /\ Joinsem(o) \in 0..1 /\ Exitsem(o) \in 0..1
  BY Binary, InvParts, Zenon DEF OneUnit
<1> QED BY <1>1 DEF UnitAt

(* JoinRelease: the unit is put into joinsem.                              *)
LEMMA JoinReleaseStep ==
    ASSUME IInv, NEW i \in Obj, JoinRelease(i), UNCHANGED discipline
    PROVE  IInv'
<1>1. UNCHANGED <<table, locals, kids, machine>> /\ Go(i, "exit4")
  BY Zenon DEF JoinRelease
<1>2. pc[i] = "exit3" /\ V(i, "join")
  BY OwnEntry, Zenon DEF JoinRelease, At
<1>3. "exit4" \in PC /\ Quiet(pc[i], "exit4") /\ ref' = ref
  BY <1>1, <1>2, Zenon DEF PC, Quiet, locals
<1>4. Joinsem(i) = 0 /\ Exitsem(i) = 0
  BY <1>2, NoUnit, Zenon
<1>5. /\ sem' \in [Obj -> Sems] /\ Joinsem(i)' = 1
      /\ \A q \in Obj : q # i => Joinsem(q)' = Joinsem(q)
      /\ \A q \in Obj : Mutex(q)' = Mutex(q) /\ Exitsem(q)' = Exitsem(q)
  BY <1>2, <1>4, GiveJoin, Zenon
<1>6. pc'[i] = "exit4" /\ \A q \in Obj : q # i => pc'[q] = pc[q]
  BY <1>1, <1>3, GoTo, SMTT(30)
<1>7. OneInside'
  BY <1>3, <1>5, <1>6, InsideKept, SMTT(30) DEF Inside
<1>8. OneUnit'
  <2>1. \A q \in Obj : pc[q] = "join5" => ref[q] # i
    BY <1>2, NobodyHasUnit, Zenon
  <2>2. \A q \in Obj : pc'[q] = "join5" => ref'[q] # i /\ pc[q] = "join5" /\ ref'[q] = ref[q]
    BY <1>3, <1>6, <2>1, SMTT(30)
  <2>3. UnitAt(i)'
    BY <1>4, <1>5, <1>6, <2>2, Zenon DEF UnitAt
  <2> QED BY <1>5, <1>6, <2>2, <2>3, UnitMoves, Zenon
<1>9. \A o \in Obj : Reaped(o)' <=> Reaped(o)
  <2>1. ~Reaped(i)' /\ ~Reaped(i)
    BY <1>2, <1>4, <1>5, <1>6, SMTT(30) DEF Reaped
  <2>2. \A o \in Obj : o # i => (Reaped(o)' <=> Reaped(o))
    BY <1>5, <1>6, ReapedKept, Zenon
  <2> QED BY <2>1, <2>2, SMTT(30)
<1> QED BY <1>1, <1>3, <1>5, <1>7, <1>8, <1>9, QuietStep, Zenon

(* ExitWait: the unit has come back to exitsem and is taken out.           *)
LEMMA ExitWaitStep ==
    ASSUME IInv, NEW i \in Obj, ExitWait(i), UNCHANGED discipline
    PROVE  IInv'
<1>1. pc[i] = "exit4" /\ UNCHANGED <<table, locals, kids, machine>>
  BY Zenon DEF ExitWait, At
<1>2. Go(i, "exit5") /\ sem[i]["exit"] > 0 /\ sem' = [sem EXCEPT ![i]["exit"] = @ - 1]
  BY <1>1, OwnEntry, Zenon DEF ExitWait, Take
<1>3. "exit5" \in PC /\ Quiet(pc[i], "exit5") /\ ref' = ref
  BY <1>1, Zenon DEF PC, Quiet, locals
<1>4. /\ sem' \in [Obj -> Sems] /\ Exitsem(i) = 1 /\ Exitsem(i)' = 0
      /\ \A q \in Obj : q # i => Exitsem(q)' = Exitsem(q)
      /\ \A q \in Obj : Mutex(q)' = Mutex(q) /\ Joinsem(q)' = Joinsem(q)
  BY <1>2, TakeExit, Zenon
<1>5. pc'[i] = "exit5" /\ \A q \in Obj : q # i => pc'[q] = pc[q]
  BY <1>2, <1>3, GoTo, SMTT(30)
<1>6. OneInside'
  BY <1>3, <1>4, <1>5, InsideKept, SMTT(30) DEF Inside
<1>7. OneUnit'
  <2>1. \A q \in Obj : pc[q] = "join5" => ref[q] # i
    BY <1>4, NobodyHasUnit, Zenon
  <2>2. \A q \in Obj : pc'[q] = "join5" => ref'[q] # i /\ pc[q] = "join5" /\ ref'[q] = ref[q]
    BY <1>3, <1>5, <2>1, SMTT(30)
  <2>3. Joinsem(i)' # 1
    BY <1>4, InvParts, SMTT(30) DEF OneUnit, UnitAt
  <2>4. UnitAt(i)'
    BY <1>4, <2>2, <2>3 DEF UnitAt
  <2> QED BY <1>4, <1>5, <2>2, <2>4, UnitMoves, SMTT(30)
<1>8. \A o \in Obj : Reaped(o)' <=> Reaped(o)
  <2>1. Reaped(i)' /\ Reaped(i)
    BY <1>1, <1>4, <1>5, SMTT(30) DEF Reaped
  <2>2. \A o \in Obj : o # i => (Reaped(o)' <=> Reaped(o))
    BY <1>4, <1>5, ReapedKept, SMTT(30)
  <2> QED BY <2>1, <2>2, Zenon
<1> QED BY <1>1, <1>2, <1>3, <1>4, <1>6, <1>7, <1>8, QuietStep, Zenon

(* Process i gets the unit of the joinsem of o, and is past JoinWait.      *)
LEMMA UnitTaken ==
    ASSUME IInv, NEW i \in Obj, NEW o \in Obj, Take(i, o, "join", "join5"),
           pc[i] \notin {"exit4", "exit5", "join5"}, ref'[i] = o,
           \A q \in Obj : q # i => ref'[q] = ref[q]
    PROVE  /\ sem' \in [Obj -> Sems]
           /\ \A q \in Obj : Mutex(q)' = Mutex(q)
           /\ \A q \in Obj : Reaped(q)' <=> Reaped(q)
           /\ OneUnit'
<1>1. Go(i, "join5") /\ "join5" \in PC
  BY Zenon DEF Take, PC
<1>2. sem[o]["join"] > 0 /\ sem' = [sem EXCEPT ![o]["join"] = @ - 1]
  BY Zenon DEF Take
<1>3. /\ sem' \in [Obj -> Sems] /\ Joinsem(o) = 1 /\ Joinsem(o)' = 0
      /\ \A q \in Obj : q # o => Joinsem(q)' = Joinsem(q)
      /\ \A q \in Obj : Mutex(q)' = Mutex(q) /\ Exitsem(q)' = Exitsem(q)
  BY <1>2, TakeJoin, ZenonT(30)
<1>4. pc[o] = "exit4" /\ o # i /\ Exitsem(o) = 0
  BY <1>3, InvParts, Zenon DEF OneUnit, UnitAt
<1>5. pc'[i] = "join5" /\ \A q \in Obj : q # i => pc'[q] = pc[q]
  BY <1>1, GoTo, SMTT(30)
<1>6. \A q \in Obj : Reaped(q)' <=> Reaped(q)
  BY <1>3, <1>5, ReapedKept, SMTT(30)
<1>7. OneUnit'
  <2>1. \A q \in Obj : pc[q] = "join5" => ref[q] # o
    BY <1>3, NobodyHasUnit, SMTT(30)
  <2>2. \A q \in Obj : pc'[q] = "join5" /\ ref'[q] # o => pc[q] = "join5" /\ ref'[q] = ref[q]
    BY <1>5, SMTT(30)
  <2>3. \A q \in Obj : pc'[q] = "join5" /\ ref'[q] = o => q = i
    BY <1>5, <2>1, SMTT(30)
  <2>4. UnitAt(o)'
    BY <1>3, <1>4, <1>5, <2>3, Zenon DEF UnitAt
  <2> QED BY <1>3, <1>5, <2>2, <2>4, UnitMoves, SMTT(30)
<1> QED BY <1>3, <1>6, <1>7, Zenon

(* A sleeper in JoinWait goes on.                                          *)
LEMMA JoinWokenStep ==
    ASSUME IInv, NEW i \in Obj, JoinWoken(i), UNCHANGED discipline
    PROVE  IInv'
<1>1. /\ pc[i] = "join4" /\ Take(i, ref[i], "join", "join5")
      /\ UNCHANGED <<table, locals, kids, machine>>
  BY Zenon DEF JoinWoken, At
<1>2. "join5" \in PC /\ Quiet(pc[i], "join5") /\ ref' = ref /\ Go(i, "join5")
  BY <1>1, Zenon DEF PC, Quiet, locals, Take
<1>3. PICK o \in Obj : o = ref[i]
  BY <1>1, InvParts, SMTT(30) DEF Holding, HoldingAt, Uses
<1>4. /\ sem' \in [Obj -> Sems]
      /\ \A q \in Obj : Mutex(q)' = Mutex(q)
      /\ \A q \in Obj : Reaped(q)' <=> Reaped(q)
      /\ OneUnit'
  BY <1>1, <1>2, <1>3, UnitTaken, Zenon
<1>5. pc'[i] = "join5" /\ \A q \in Obj : q # i => pc'[q] = pc[q]
  BY <1>2, GoTo, Zenon
<1>6. OneInside'
  BY <1>2, <1>4, <1>5, InsideKept, ZenonT(30) DEF Inside
<1> QED BY <1>1, <1>2, <1>4, <1>6, QuietStep, Zenon
-----------------------------------------------------------------------------
(* Exec takes bmsem when nobody is past it, or gives it back after a       *)
(* failure.                                                                *)
LEMMA BmsemStep ==
    ASSUME IInv, NEW i \in Obj, ExecUpdate(i) \/ ExecFail(i), UNCHANGED discipline
    PROVE  IInv'
<1>1. UNCHANGED <<pcb, made, alive, processID, parentID, exitcode, parent,
                  sem, id, ref, kids, machine, discipline>>
  BY Zenon DEF ExecUpdate, ExecFail, locals
<1>2. PICK to \in {"exec1", "execv1", "user"} :
         Go(i, to) /\ (to \in {"exec1", "execv1"} => made < MaxObj)
  BY Zenon DEF ExecUpdate, ExecFail
<1>3. pc[i] \in {"exec1", "execv1", "user"}
  BY Zenon DEF ExecUpdate, ExecFail, At
<1>4. pc' \in [Obj -> PC] /\ pc'[i] = to /\ \A q \in Obj : q # i => pc'[q] = pc[q]
  BY <1>2, GoTo, Zenon DEF PC
<1>5. bmsem' \in 0..1 /\ OneCreates'
  <2>1. OneCreates /\ bmsem \in 0..1
    BY InvParts, Zenon DEF TypeOK
  <2>2. CASE ExecUpdate(i)
    <3>1. bmsem = 1 /\ bmsem' = 0
      BY <2>1, <2>2 DEF ExecUpdate
    <3>2. \A q \in Obj : pc[q] \notin Creating
      BY <2>1, <3>1 DEF OneCreates
    <3> QED BY <1>4, <3>1, <3>2 DEF OneCreates
  <2>3. CASE ExecFail(i)
    <3>1. pc[i] \in Creating /\ pc'[i] = "user" /\ bmsem' = bmsem + 1
      BY <1>4, <2>3, InvParts, SMTT(30) DEF ExecFail, At, Creating, Go, TypeOK
    <3>2. bmsem = 0 /\ \A q \in Obj : q # i => pc[q] \notin Creating
      BY <2>1, <3>1, Zenon DEF OneCreates
    <3>3. \A q \in Obj : pc'[q] \notin Creating
      BY <1>4, <3>1, <3>2, Zenon DEF Creating
    <3> QED BY <3>1, <3>2, <3>3, SMTT(30) DEF OneCreates
  <2> QED BY <2>2, <2>3, SMTT(30)
<1>6. HoldingAt(i)'
  <2>1. HoldingAt(i)
    BY InvParts, Zenon DEF Holding
  <2> QED BY <1>1, <1>2, <1>4, <2>1, Zenon DEF HoldingAt, Uses, Making, Joining, Exiting
<1>7. /\ sem' \in [Obj -> Sems]
      /\ \A q \in Obj : /\ Joinsem(q)' = Joinsem(q) /\ Exitsem(q)' = Exitsem(q)
                        /\ Mutex(q)' = Mutex(q)
  BY <1>1, SemKept, Zenon
<1>8. OneInside'
  BY <1>1, <1>4, <1>7, InsideKept, ZenonT(30) DEF Inside
<1>9. OneUnit'
  BY <1>1, <1>3, <1>4, <1>7, UnitKept, Zenon
<1>10. \A o \in Obj : Reaped(o)' <=> Reaped(o)
  BY <1>3, <1>4, <1>7, ReapedKept, Zenon
<1>11. ASSUME Orderly PROVE pc[i] \notin Making /\ FamilyAt(i)'
  <2>1. FamilyAt(i) /\ (\A o \in kids[i] : o \in Obj) /\ pc[i] \notin Making
    BY <1>3, <1>11, InvParts, SMTT(30) DEF Families, TypeOK, Making
  <2> QED BY <1>1, <1>4, <1>10, <2>1, ZenonT(30) DEF FamilyAt, Making, Joining, Exiting
<1>12. /\ id' \in [Obj -> Slot \cup {NULL}] /\ ref' \in [Obj -> Obj \cup {NULL}]
       /\ exitcode' \in [Obj -> Code \cup {Junk}]
  BY <1>1, InvParts, Zenon DEF TypeOK
<1> QED BY <1>1, <1>3, <1>4, <1>5, <1>6, <1>7, <1>8, <1>9, <1>10, <1>11, <1>12, LocalStep, SMTT(30)
-----------------------------------------------------------------------------
(* Fork: the new process may start; the other one has made it.             *)
LEMMA ForkStep ==
    ASSUME IInv, NEW i \in Obj, Exec(i) \/ ExecV(i), UNCHANGED discipline
    PROVE  IInv'
<1>1. /\ pc[i] \in {"exec2", "execv2"}
      /\ UNCHANGED <<pcb, bmsem, made, alive, processID, parentID, exitcode, parent,
                     sem, id, ref, kids, machine, discipline>>
  BY SMTT(30) DEF Exec, ExecV, At, locals, table
<1>2. PICK o \in Obj : HoldingAt(i) /\ o = ref[i] /\ pc[o] = "new" /\ o # i
  BY <1>1, InvParts, Zenon DEF Holding, HoldingAt, Uses, Making
<1>3. PICK first \in {"start1", "start2"} : pc' = [pc EXCEPT ![i] = "exec3", ![o] = first]
  BY <1>2, Zenon DEF Exec, ExecV
<1>4. /\ pc' \in [Obj -> PC] /\ pc'[i] = "exec3" /\ pc'[o] \in {"start1", "start2"}
      /\ \A q \in Obj : q # i /\ q # o => pc'[q] = pc[q]
  BY <1>2, <1>3, InvParts, SMTT(30) DEF TypeOK, PC
<1>5. TypeOK'
  BY <1>1, <1>4, InvParts, Zenon DEF TypeOK
<1>6. Structure'
  BY <1>1, <1>2, <1>4, StructureKept, Zenon
<1>7. OneCreates'
  BY <1>1, <1>2, <1>4, CreatesKept, Zenon DEF Creating
<1>8. \A q \in Obj : /\ Joinsem(q)' = Joinsem(q) /\ Exitsem(q)' = Exitsem(q)
                     /\ Mutex(q)' = Mutex(q)
  BY <1>1, SemKept, SMTT(30)
<1>9. OneInside'
  BY <1>1, <1>4, <1>8, InsideKept, SMTT(30) DEF Inside
<1>10. OneUnit'
  BY <1>1, <1>2, <1>4, <1>8, UnitKept, Zenon
<1>11. Holding'
  <2>1. ASSUME NEW q \in Obj, q # i, q # o PROVE HoldingAt(q)'
    <3>1. HoldingAt(q) /\ pc[q] \notin {"exec2", "execv2"}
      BY <1>1, <2>1, InvParts, Zenon DEF Holding, OneCreates, Creating
    <3> QED BY <1>1, <1>4, <2>1, <3>1, Zenon DEF HoldingAt
  <2>2. HoldingAt(o)'
    <3>1. HoldingAt(o)
      BY <1>2, InvParts, SMTT(30) DEF Holding
    <3> QED BY <1>1, <1>4, <3>1, Zenon DEF HoldingAt, Uses, Making, Joining, Exiting
  <2>3. HoldingAt(i)'
    BY <1>1, <1>2, <1>4, Zenon DEF HoldingAt, Uses, Making, Joining, Exiting
  <2> QED BY <2>1, <2>2, <2>3, SMTT(30) DEF Holding
<1>12. ASSUME Orderly' PROVE Families'
  <2>1. Orderly /\ Families /\ alive \subseteq Obj
    BY <1>1, <1>12, AliveAreObjects, InvParts, Zenon DEF Orderly
  <2>2. \A x \in Obj : Reaped(x)' <=> Reaped(x)
    BY <1>1, <1>2, <1>4, <1>8, ReapedKept, Zenon
  <2>3. \A x \in Obj : pc[x] \in Making => pc'[x] \in Making
    BY <1>2, <1>4, Zenon DEF Making
  <2>4. ASSUME NEW x \in alive PROVE KeptByParent(x)'
    <3>1. KeptByParent(x) /\ x \in Obj /\ (x # Main => parent[x] \in Obj)
      BY <2>1, InvParts, Zenon DEF Families, Structure
    <3> QED BY <1>1, <2>2, <2>3, <3>1, Zenon DEF KeptByParent
  <2>5. ASSUME NEW q \in Obj PROVE FamilyAt(q)'
    <3>1. FamilyAt(q) /\ (\A x \in kids[q] : x \in Obj)
      BY <2>1, InvParts, Zenon DEF Families, TypeOK
    <3>2. pc[q] \in Making => ref[q] \in Obj
      BY InvParts, Zenon DEF Holding, HoldingAt, Uses
    <3>3. /\ pc'[q] \in Joining => pc[q] \in Joining
          /\ pc'[q] \in {"join4", "join5"} => pc[q] \in {"join4", "join5"}
          /\ pc'[q] \in Making => pc[q] \in Making
          /\ pc'[q] \in {"exit1", "exit2"} => pc[q] \in {"exit1", "exit2"}
          /\ pc'[q] \in Exiting \cup {"none", "gone"} => pc[q] \in Exiting \cup {"none", "gone"}
      BY <1>1, <1>4, Zenon DEF Joining, Making, Exiting
    <3> QED BY <1>1, <2>2, <3>1, <3>2, <3>3, Zenon DEF FamilyAt
  <2> QED BY <1>1, <2>1, <2>4, <2>5, Zenon DEF Families
<1> QED BY <1>5, <1>6, <1>7, <1>9, <1>10, <1>11, <1>12, InvHolds, SMTT(30)

(* Exec is given back its child's id, which the program then knows.        *)
LEMMA ExecReturnStep ==
    ASSUME IInv, NEW i \in Obj, ExecReturn(i), UNCHANGED discipline
    PROVE  IInv'
<1>1. pc[i] = "exec4"
  BY ZenonT(30) DEF ExecReturn, At
<1>2. CASE Crash(ref[i])
  <2>1. Orderly => Valid(ref[i])
    BY <1>1, MadeIsThere, Zenon DEF Making
  <2> QED BY <1>2, <2>1, CrashStep, Zenon
<1>3. CASE ~Crash(ref[i])
  <2>1. /\ bmsem' = bmsem + 1 /\ Go(i, "user")
        /\ UNCHANGED <<pcb, made, alive, processID, parentID, exitcode,
                       parent, sem, id, ref, machine, discipline>>
    BY <1>3, SMTT(30) DEF ExecReturn, locals
  <2>2. PICK o \in Obj : o = ref[i]
    BY <1>1, InvParts, SMTT(30) DEF Holding, HoldingAt, Uses, Making
  <2>3. kids' = [kids EXCEPT ![i] = @ \cup {o}] /\ kids \in [Obj -> SUBSET Obj]
    BY <1>3, <2>2, InvParts, Zenon DEF ExecReturn, TypeOK
  <2>4. /\ kids' \in [Obj -> SUBSET Obj] /\ kids'[i] = kids[i] \cup {o}
        /\ \A q \in Obj : q # i => kids'[q] = kids[q]
    BY <2>3, SMTT(30)
  <2>5. pc' \in [Obj -> PC] /\ pc'[i] = "user" /\ \A q \in Obj : q # i => pc'[q] = pc[q]
    BY <2>1, GoTo, SMTT(30) DEF PC
  <2>6. bmsem' \in 0..1 /\ OneCreates'
    <3>1. OneCreates /\ pc[i] \in Creating
      BY <1>1, InvParts, Zenon DEF Creating
    <3>2. bmsem = 0 /\ \A q \in Obj : q # i => pc[q] \notin Creating
      BY <3>1, Zenon DEF OneCreates
    <3>3. \A q \in Obj : pc'[q] \notin Creating
      BY <2>5, <3>2, SMTT(30) DEF Creating
    <3> QED BY <2>1, <3>2, <3>3 DEF OneCreates
  <2>7. TypeOK'
    BY <2>1, <2>4, <2>5, <2>6, InvParts, SMTT(30) DEF TypeOK
  <2>8. Structure'
    BY <1>1, <2>1, <2>5, StructureKept, SMTT(30)
  <2>9. Holding'
    <3>1. HoldingAt(i)
      BY InvParts, Zenon DEF Holding
    <3>2. HoldingAt(i)'
      BY <2>1, <2>5, <3>1, ZenonT(30) DEF HoldingAt, Uses, Making, Joining, Exiting
    <3> QED BY <1>1, <2>1, <2>5, <3>2, HoldingKept, Zenon
  <2>10. \A q \in Obj : /\ Joinsem(q)' = Joinsem(q) /\ Exitsem(q)' = Exitsem(q)
                        /\ Mutex(q)' = Mutex(q)
    BY <2>1, SemKept, SMTT(30)
  <2>11. OneInside'
    BY <2>1, <2>5, <2>10, InsideKept, SMTT(30) DEF Inside
  <2>12. OneUnit'
    BY <1>1, <2>1, <2>5, <2>10, UnitKept, Zenon
  <2>13. ASSUME Orderly' PROVE Families'
    <3>1. Orderly /\ Families /\ alive \subseteq Obj
      BY <2>1, <2>13, AliveAreObjects, InvParts, Zenon DEF Orderly
    <3>2. \A x \in Obj : Reaped(x)' <=> Reaped(x)
      BY <1>1, <2>5, <2>10, ReapedKept, Zenon
    <3>3. ASSUME NEW x \in alive PROVE KeptByParent(x)'
      <4>1. KeptByParent(x) /\ x \in Obj /\ (x # Main => parent[x] \in Obj)
        BY <3>1, InvParts, Zenon DEF Families, Structure
      <4> QED BY <2>1, <2>2, <2>4, <2>5, <3>2, <4>1, ZenonT(30) DEF KeptByParent
    <3>4. FamilyAt(i)'
      <4>1. FamilyAt(i) /\ \A x \in kids[i] : x \in Obj
        BY <2>3, <3>1, SMTT(30) DEF Families
      <4>2. o \in alive /\ parent[o] = i /\ ~Reaped(o)
        BY <1>1, <2>2, <4>1, Zenon DEF FamilyAt, Making
      <4> QED BY <2>1, <2>4, <2>5, <3>2, <4>1, <4>2, ZenonT(30)
             DEF FamilyAt, Joining, Making, Exiting
    <3>5. ASSUME NEW q \in Obj, q # i PROVE FamilyAt(q)'
      <4>1. FamilyAt(q) /\ (\A x \in kids[q] : x \in Obj)
        BY <2>3, <3>1, SMTT(30) DEF Families
      <4>2. pc[q] \in Making => ref[q] \in Obj
        BY InvParts, Zenon DEF Holding, HoldingAt, Uses
      <4> QED BY <2>1, <2>4, <2>5, <3>2, <3>5, <4>1, <4>2, Zenon DEF FamilyAt
    <3> QED BY <2>1, <3>1, <3>3, <3>4, <3>5, Zenon DEF Families
  <2> QED BY <2>6, <2>7, <2>8, <2>9, <2>11, <2>12, <2>13, InvHolds, Zenon
<1> QED BY <1>2, <1>3, Zenon

-----------------------------------------------------------------------------
(* The abstract life of a process changes with its point only when it      *)
(* starts, calls Exit, is let go or is removed.                            *)
LEMMA LifeKept ==
    ASSUME TypeOK, TypeOK', NEW o \in Obj,
           pc'[o] = "none" <=> pc[o] = "none", pc'[o] = "gone" <=> pc[o] = "gone",
           pc'[o] \in Exiting <=> pc[o] \in Exiting, Reaped(o)' <=> Reaped(o)
    PROVE  Life(o)' = Life(o)
<1>1. /\ pc[o] \in PC /\ pc'[o] \in PC
      /\ sem[o].exit \in 0..1 /\ sem'[o].exit \in 0..1
  BY Zenon DEF TypeOK
<1> QED BY <1>1, SMTT(30) DEF Life, Reaped, Exitsem, Exiting, PC

(* The steps in which no process starts, exits, is let go or is removed.   *)
Inner(i) ==
    \/ ExecUpdate(i) \/ ExecFail(i) \/ Exec(i) \/ ExecV(i) \/ ExecUnlock(i) \/ ExecReturn(i)
    \/ StartProcess_1(i) \/ StartProcess_2(i) \/ JoinUpdate(i) \/ JoinMutex(i)
    \/ IncNumWait(i) \/ JoinWait(i) \/ JoinWoken(i)
    \/ ExitMutex(i) \/ DecNumWait(i) \/ JoinRelease(i) \/ ExitWait(i)

(* A crash is not one of the orderly programs.                             *)
LEMMA NoCrashNext ==
    ASSUME IInv', Orderly'
    PROVE  machine' \in {"up", "halted"}
BY Zenon DEF IInv, Families

(* P() and V() on a mutex or a joinsem leave the exitsems alone.           *)
LEMMA ExitsemKept ==
    ASSUME TypeOK, NEW o, NEW v,
           \/ sem' = [sem EXCEPT ![o]["mutex"] = v]
           \/ sem' = [sem EXCEPT ![o]["join"] = v]
           \/ sem' = sem
    PROVE  \A q \in Obj : Exitsem(q)' = Exitsem(q)
<1>1. sem \in [Obj -> Sems]
  BY Zenon DEF TypeOK, Sems
<1>2. CASE sem' = [sem EXCEPT ![o]["mutex"] = v]
  BY <1>1, <1>2 DEF Sems, Exitsem
<1>3. CASE sem' = [sem EXCEPT ![o]["join"] = v]
  BY <1>1, <1>3, Zenon DEF Sems, Exitsem
<1>4. CASE sem' = sem
  BY <1>4, Zenon DEF Exitsem
<1> QED BY <1>2, <1>3, <1>4, Zenon

(* Inner steps leave the entries and the parents alone, and the machine    *)
(* too unless it crashes.                                                  *)
LEMMA InnerTable ==
    ASSUME NEW i \in Obj, Inner(i)
    PROVE  /\ UNCHANGED <<processID, parent, made>>
           /\ machine' \in {"up", "halted"} => machine' = machine
<1>1. CASE ExecUpdate(i) \/ ExecFail(i)
  BY <1>1, SMTT(30) DEF ExecUpdate, ExecFail
<1>2. CASE Exec(i) \/ ExecV(i) \/ StartProcess_1(i) \/ StartProcess_2(i)
  BY <1>2, Zenon DEF Exec, ExecV, StartProcess_1, StartProcess_2, table
<1>3. CASE ExecUnlock(i)
  BY <1>3, SMTT(30) DEF ExecUnlock, Crash, table
<1>6. CASE ExecReturn(i)
  BY <1>6, SMTT(30) DEF ExecReturn, Crash, table
<1>4. CASE JoinUpdate(i) \/ JoinMutex(i) \/ IncNumWait(i) \/ JoinWait(i) \/ JoinWoken(i)
  BY <1>4, ZenonT(30) DEF JoinUpdate, JoinMutex, IncNumWait, JoinWait, JoinWoken, Crash, table
<1>5. CASE ExitMutex(i) \/ DecNumWait(i) \/ JoinRelease(i) \/ ExitWait(i)
  BY <1>5, Zenon DEF ExitMutex, DecNumWait, JoinRelease, ExitWait, Crash, table
<1> QED BY <1>1, <1>2, <1>3, <1>4, <1>5, <1>6, Zenon DEF Inner

(* They leave the exitsems alone, but for the P() of ExitWait.             *)
LEMMA InnerSems ==
    ASSUME TypeOK, NEW i \in Obj, Inner(i), ~ExitWait(i), machine' \in {"up", "halted"}
    PROVE  \A q \in Obj : Exitsem(q)' = Exitsem(q)
<1>1. \A o : ~Crash(o)
  BY Zenon DEF Crash
<1> SUFFICES \E o, v : \/ sem' = [sem EXCEPT ![o]["mutex"] = v]
                       \/ sem' = [sem EXCEPT ![o]["join"] = v]
                       \/ sem' = sem
  BY ExitsemKept, Zenon
<1>2. CASE ExecUpdate(i) \/ ExecFail(i) \/ Exec(i) \/ ExecV(i) \/ StartProcess_1(i) \/ StartProcess_2(i)
  BY <1>2, Zenon DEF ExecUpdate, ExecFail, Exec, ExecV, StartProcess_1, StartProcess_2
<1>3. CASE ExecUnlock(i) \/ ExecReturn(i)
  BY <1>1, <1>3, Zenon DEF ExecUnlock, ExecReturn, V
<1>4. CASE JoinUpdate(i) \/ JoinMutex(i) \/ IncNumWait(i)
  BY <1>4, Zenon DEF JoinUpdate, JoinMutex, IncNumWait, P, Take, V
<1>5. CASE JoinWait(i) \/ JoinWoken(i)
  BY <1>1, <1>5, Zenon DEF JoinWait, JoinWoken, P, Take
<1>6. CASE ExitMutex(i) \/ DecNumWait(i) \/ JoinRelease(i)
  BY <1>1, <1>6, Zenon DEF ExitMutex, DecNumWait, JoinRelease, Take, V
<1> QED BY <1>2, <1>3, <1>4, <1>5, <1>6, Zenon DEF Inner

(* They move process i on, within Exit or outside of it.                   *)
LEMMA InnerPoints ==
    ASSUME IInv, NEW i \in Obj, Inner(i), machine' \in {"up", "halted"}
    PROVE  \A o \in Obj :
              /\ pc'[o] = "none" <=> pc[o] = "none"
              /\ pc'[o] = "gone" <=> pc[o] = "gone"
              /\ pc'[o] \in Exiting <=> pc[o] \in Exiting
              /\ pc'[o] = "exit5" /\ pc[o] # "exit5" => o = i /\ ExitWait(i)
              /\ pc[o] = "exit5" => pc'[o] = "exit5"
              /\ pc'[o] = "exit4" /\ pc[o] # "exit4" => o = i /\ pc[o] = "exit3"
              /\ pc[o] = "exit4" /\ pc'[o] # "exit4" => o = i /\ ExitWait(i)
<1>1. \A o : ~Crash(o)
  BY ZenonT(30) DEF Crash
<1>2. pc \in [Obj -> PC]
  BY InvParts, SMTT(30) DEF TypeOK
<1>3. CASE Exec(i) \/ ExecV(i)
  <2>1. pc[i] \in {"exec2", "execv2"} /\ ref[i] \in Obj /\ pc[ref[i]] = "new"
    BY <1>3, InvParts, SMTT(30) DEF Exec, ExecV, At, Holding, HoldingAt, Uses, Making
  <2> QED BY <1>2, <1>3, <2>1, SMTT(30) DEF Exec, ExecV, Exiting
<1>4. CASE ExecUpdate(i) \/ ExecFail(i) \/ StartProcess_1(i) \/ StartProcess_2(i)
  BY <1>2, <1>4, SMTT(30)
         DEF ExecUpdate, ExecFail, StartProcess_1, StartProcess_2, At, Go, Exiting
<1>5. CASE ExecUnlock(i)
  BY <1>1, <1>2, <1>5, SMTT(30) DEF ExecUnlock, At, Go, Exiting
<1>9. CASE ExecReturn(i)
  BY <1>1, <1>2, <1>9, SMTT(30) DEF ExecReturn, At, Go, Exiting
<1>6. CASE JoinUpdate(i) \/ JoinMutex(i) \/ IncNumWait(i)
  BY <1>2, <1>6, ZenonT(30) DEF JoinUpdate, JoinMutex, IncNumWait, P, Take, At, Go, Exiting
<1>7. CASE JoinWait(i) \/ JoinWoken(i)
  BY <1>1, <1>2, <1>7, SMTT(30) DEF JoinWait, JoinWoken, P, Take, At, Go, Exiting
<1>8. CASE ExitMutex(i) \/ DecNumWait(i) \/ JoinRelease(i) \/ ExitWait(i)
  BY <1>1, <1>2, <1>8, Zenon DEF ExitMutex, DecNumWait, JoinRelease, ExitWait, Take, At, Go, Exiting
<1> QED BY <1>3, <1>4, <1>5, <1>6, <1>7, <1>8, <1>9, Zenon DEF Inner

(* So no life changes.                                                     *)
LEMMA InnerLife ==
    ASSUME IInv, IInv', NEW i \in Obj, Inner(i), machine' \in {"up", "halted"}
    PROVE  \A o \in Obj : Life(o)' = Life(o)
<1> SUFFICES ASSUME NEW o \in Obj PROVE Life(o)' = Life(o)
  BY Zenon
<1>1. TypeOK /\ TypeOK'
  BY Zenon DEF IInv
<1>2. Reaped(o)' <=> Reaped(o)
  <2>1. CASE ExitWait(i)
    <3>1. pc[i] = "exit4"
      BY <2>1, Zenon DEF ExitWait, At
    <3>2. Go(i, "exit5") /\ sem[i]["exit"] > 0 /\ sem' = [sem EXCEPT ![i]["exit"] = @ - 1]
      BY <2>1, <3>1, OwnEntry, Zenon DEF ExitWait, Take
    <3>3. Exitsem(i) = 1 /\ \A q \in Obj : q # i => Exitsem(q)' = Exitsem(q)
      BY <3>2, TakeExit, Zenon
    <3>4. pc'[i] = "exit5" /\ \A q \in Obj : q # i => pc'[q] = pc[q]
      BY <3>2, GoTo, SMTT(30) DEF PC
    <3> QED BY <3>1, <3>3, <3>4 DEF Reaped
  <2>2. CASE ~ExitWait(i)
    <3>1. Exitsem(o)' = Exitsem(o)
      BY <1>1, <2>2, InnerSems, Zenon
    <3>2. pc[o] = "exit3" => Exitsem(o) = 0
      BY NoUnit, Zenon
    <3> QED BY <2>2, <3>1, <3>2, InnerPoints DEF Reaped
  <2> QED BY <2>1, <2>2, SMTT(30)
<1> QED BY <1>1, <1>2, InnerPoints, LifeKept, Zenon

-----------------------------------------------------------------------------
(* Chains of parents: a parent is made before its children, and every set  *)
(* of processes has one whose parent is not among them.  A process that is *)
(* not made yet has no entry.                                              *)
Lineage ==
    /\ \A o \in Obj : o >= made => processID[o] = NULL
    /\ \A o \in Obj : parent[o] # NULL => parent[o] < made
    /\ \A S \in SUBSET Obj : S # {} => \E o \in S : parent[o] \notin S

(* At the start no process has a parent, and only main has an entry.       *)
LEMMA InitLineage == Init => Lineage
<1> SUFFICES ASSUME Init PROVE Lineage
  BY Zenon
<1>1. NULL \notin Obj /\ \A o \in Obj : parent[o] = NULL
  BY AliveAreObjects, InitIInv, InvParts, Zenon DEF Init
<1>2. \A o \in Obj : o >= made => processID[o] = NULL
  BY DEF Init, Main, Obj
<1> QED BY <1>1, <1>2, SMTT(30) DEF Lineage

(* ExecAlloc adds a process that is nobody's parent.                       *)
LEMMA AllocLineage ==
    ASSUME IInv, Lineage, NEW i \in Obj, ExecAlloc(i)
    PROVE  Lineage'
<1>1. made' = made + 1 /\ pc[i] \in {"exec1", "execv1"}
  BY Zenon DEF ExecAlloc, At
<1>2. PICK n \in Slot : processID' = [processID EXCEPT ![made] = n]
  BY Zenon DEF ExecAlloc
<1>3. parent' = [parent EXCEPT ![made] = i] /\ parent \in [Obj -> Obj \cup {NULL}]
  BY InvParts, Zenon DEF ExecAlloc, TypeOK
<1>4. made \in Obj /\ made \in Nat /\ i < made /\ NULL \notin Obj
  <2>1. made < MaxObj /\ made \in 1 .. MaxObj
    BY <1>1, InvParts, Zenon DEF Holding, HoldingAt, TypeOK
  <2>2. made \in Obj /\ made \in Nat /\ i \in Nat
    BY <2>1, ProcTableAssumption DEF Obj
  <2>3. ~(i >= made)
    BY <1>1, InvParts, Zenon DEF Structure
  <2> QED BY <2>2, <2>3, AliveAreObjects, InvParts, SMTT(30)
<1>5. PICK o \in Obj : o = made /\ o # i
  BY <1>4
<1>6. parent'[o] = i /\ \A q \in Obj : q # o => parent'[q] = parent[q]
  BY <1>3, <1>5, Zenon
<1>7. \A q \in Obj : parent[q] # o
  BY <1>4, <1>5 DEF Lineage
<1>8. \A q \in Obj : parent'[q] # NULL => parent'[q] < made'
  BY <1>1, <1>3, <1>4, <1>5, <1>6 DEF Lineage, Obj
<1>9. \A q \in Obj : q >= made' => processID'[q] = NULL
  <2>1. processID \in [Obj -> Slot \cup {NULL}] /\ \A q \in Obj : q \in Nat
    BY InvParts, ProcTableAssumption, SMTT(30) DEF TypeOK, Obj
  <2> QED BY <1>1, <1>2, <1>4, <2>1, SMTT(30) DEF Lineage
<1>10. ASSUME NEW S \in SUBSET Obj, S # {} PROVE \E q \in S : parent'[q] \notin S
  <2>1. CASE S \ {o} = {}
    BY <1>5, <1>6, <1>10, <2>1, SMTT(30)
  <2>2. CASE S \ {o} # {}
    <3>1. PICK q \in S \ {o} : parent[q] \notin S \ {o}
      BY <2>2, ZenonT(30) DEF Lineage
    <3> QED BY <1>6, <1>7, <3>1, Zenon
  <2> QED BY <2>1, <2>2, SMTT(30)
<1> QED BY <1>8, <1>9, <1>10, Zenon DEF Lineage

(* Every step keeps it.                                                    *)
LEMMA NextLineage ==
    ASSUME IInv, Lineage, [Next \/ Stopped]_vars
    PROVE  Lineage'
<1>1. ASSUME UNCHANGED <<processID, parent, made>> PROVE Lineage'
  BY <1>1, Zenon DEF Lineage
<1>2. ASSUME NEW i \in Obj, Inner(i) PROVE Lineage'
  BY <1>1, <1>2, InnerTable, Zenon
<1>3. ASSUME NEW i \in Obj, JoinReturn(i) \/ Remove(i) \/ ExitUpdate(i) PROVE Lineage'
  BY <1>1, <1>3, Zenon DEF JoinReturn, Remove, ExitUpdate, Crash, table
<1>4. CASE ExitMain \/ UNCHANGED vars
  BY <1>1, <1>4, Zenon DEF ExitMain, table, vars
<1>5. ASSUME NEW i \in Obj, Kernel(i) \/ Program(i)
      PROVE  Inner(i) \/ ExecAlloc(i) \/ JoinReturn(i) \/ Remove(i) \/ ExitUpdate(i)
  BY <1>5, ZenonT(30) DEF Kernel, Program, Inner
<1> QED BY <1>2, <1>3, <1>4, <1>5, AllocLineage, Zenon DEF Next, Stopped

(* When the main process of an orderly run has no child left, all other    *)
(* processes have been collected: an oldest one that has not would be a    *)
(* child of the main process.                                              *)
LEMMA AllCollected ==
    ASSUME IInv, Lineage, Orderly, pc[Main] = "user", kids[Main] = {}
    PROVE  \A o \in Obj \ {Main} : pc[o] \in {"none", "gone"} \/ Reaped(o)
<1> DEFINE S == {o \in Obj \ {Main} : pc[o] \notin {"none", "gone"} /\ ~Reaped(o)}
<1>1. ASSUME S # {} PROVE FALSE
  <2>1. PICK o \in S : parent[o] \notin S
    BY <1>1, ZenonT(30) DEF Lineage
  <2>2. o \in Obj /\ o # Main /\ o \in alive /\ ~Reaped(o) /\ parent[o] \in Obj
    BY <2>1, InvParts, SMTT(30) DEF Structure
  <2>3. KeptByParent(o) /\ FamilyAt(parent[o])
    BY <2>2, InvParts, SMTT(30) DEF Families
  <2>4. parent[o] # Main
    BY <2>2, <2>3, SMTT(30) DEF KeptByParent, Making
  <2>5. pc[parent[o]] \in {"none", "gone", "exit4", "exit5"}
    BY <2>1, <2>2, <2>4, Zenon DEF Reaped
  <2> QED BY <2>2, <2>3, <2>5, Zenon DEF KeptByParent, FamilyAt, Making, Exiting
<1> QED BY <1>1, SMTT(30)

-----------------------------------------------------------------------------
(* Exit of a process other than the main one, which only then is exited.   *)
LEMMA ExitExits ==
    ASSUME IInv, IInv', NEW i \in Obj, ExitUpdate(i), Orderly, Orderly'
    PROVE  Procs!Exit(i)
<1>1. i # Main /\ pc[i] = "user" /\ TypeOK /\ TypeOK' /\ \A o : ~Crash(o)
  <2>1. \A o : ~Crash(o)
    BY NoCrashNext, ZenonT(30) DEF Crash
  <2> QED BY <2>1, Zenon DEF ExitUpdate, At, IInv
<1>2. UNCHANGED <<processID, parent, machine>>
  BY <1>1, Zenon DEF ExitUpdate
<1>3. PICK o : P(i, o, "mutex", "exit1", "exit2")
  BY <1>1, ZenonT(30) DEF ExitUpdate
<1>4. pc'[i] \in {"exit1", "exit2"} /\ \A q \in Obj : q # i => pc'[q] = pc[q]
  BY <1>1, <1>3, Zenon DEF P, Take, Go, TypeOK
<1>5. \A q \in Obj : Exitsem(q)' = Exitsem(q)
  BY <1>1, <1>3, ExitsemKept, Zenon DEF P, Take
<1>6. Life(i) = "running" /\ Life(i)' = "exited"
  BY <1>1, <1>4, SMTT(30) DEF Life
<1>7. ASSUME NEW q \in Obj, q # i PROVE Life(q)' = Life(q)
  <2>1. pc'[q] = pc[q] /\ Exitsem(q)' = Exitsem(q)
    BY <1>4, <1>5, <1>7, Zenon
  <2>2. Reaped(q)' <=> Reaped(q)
    BY <2>1, Zenon DEF Reaped
  <2> QED BY <1>1, <2>1, <2>2, LifeKept, Zenon
<1> QED BY <1>1, <1>2, <1>6, <1>7, ZenonT(30) DEF Procs!Exit, Shown

(* Remove frees the entry of a process that has been collected.            *)
LEMMA RemoveFrees ==
    ASSUME IInv, IInv', NEW i \in Obj, Remove(i), Orderly, Orderly'
    PROVE  Procs!Free(i)
<1>1. pc[i] = "exit5" /\ Go(i, "gone") /\ TypeOK /\ TypeOK' /\ sem' = sem
  BY Zenon DEF Remove, At, IInv
<1>2. UNCHANGED <<processID, parent, machine>>
  BY Zenon DEF Remove
<1>3. pc'[i] = "gone" /\ \A q \in Obj : q # i => pc'[q] = pc[q]
  BY <1>1, GoTo, Zenon DEF PC
<1>4. Life(i) = "reaped" /\ Life(i)' = "freed"
  BY <1>1, <1>3, Zenon DEF Life
<1>5. ASSUME NEW q \in Obj, q # i PROVE Life(q)' = Life(q)
  BY <1>1, <1>3, <1>5, SMTT(30) DEF Life
<1> QED BY <1>2, <1>4, <1>5, ZenonT(30) DEF Procs!Free, Shown

(* Exit of the main process, which halts the machine.                      *)
LEMMA ExitHalts ==
    ASSUME IInv, IInv', Lineage, ExitMain, Orderly, Orderly'
    PROVE  Procs!Halt
<1>1. /\ pc[Main] = "user" /\ kids[Main] = {} /\ machine' = "halted"
      /\ UNCHANGED <<processID, parent, pc, sem>>
  BY Zenon DEF ExitMain, At, table
<1>2. ASSUME NEW o \in Obj, o # Main PROVE Life(o) \notin {"running", "exited"}
  <2>1. pc[o] \in {"none", "gone"} \/ Reaped(o)
    BY <1>1, <1>2, AllCollected, Zenon
  <2> QED BY <2>1, SMTT(30) DEF Life, Reaped, Exitsem
<1>3. \A o \in Obj : Life(o)' = Life(o)
  BY <1>1, SMTT(30) DEF Life
<1> QED BY <1>1, <1>2, <1>3, SMTT(30) DEF Procs!Halt, Shown

(* Steps that change no life change nothing of the abstract state.         *)
LEMMA Stutters ==
    ASSUME Orderly, Orderly', UNCHANGED <<processID, parent, machine>>,
           \A o \in Obj : Life(o)' = Life(o)
    PROVE  UNCHANGED Procs!procVars
BY Zenon DEF Procs!procVars, Shown
=============================================================================
