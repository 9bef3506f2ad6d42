-------------------------- MODULE ProcTableProofs ---------------------------
(***************************************************************************)
(* The steps of ProcTable that make, free or hand over a PCB: Exec, ExecV, *)
(* the end of Join, and Exit; the theorem about the pointers that the      *)
(* process table follows without a test; and the theorem that it behaves   *)
(* as module Processes says. The invariant and the steps that only move a  *)
(* process on are in ProcTableLemmas.                                      *)
(***************************************************************************)
EXTENDS ProcTableLemmas

-----------------------------------------------------------------------------
(* A PCB is made in a free entry, and its creator is in its mutex.         *)
LEMMA ExecAllocStep ==
    ASSUME IInv, NEW i \in Obj, ExecAlloc(i), UNCHANGED discipline
    PROVE  IInv'
<1>1. /\ pc[i] \in {"exec1", "execv1"} /\ made' = made + 1
      /\ UNCHANGED <<bmsem, exitcode, kids, machine, discipline>>
  BY Zenon DEF ExecAlloc, At
<1>2. PICK n \in Slot :
         /\ GetFreeSlot(n)
         /\ pcb' = [pcb EXCEPT ![n] = made]
         /\ alive' = alive \cup {made}
         /\ processID' = [processID EXCEPT ![made] = n]
         /\ parentID' = [parentID EXCEPT ![made] = processID[i]]
         /\ sem' = [sem EXCEPT ![made] = [NewSems EXCEPT !.mutex = 0]]
         /\ pc' = [pc EXCEPT ![made] = "new",
                     ![i] = IF @ = "exec1" THEN "exec2" ELSE "execv2"]
         /\ ref' = [ref EXCEPT ![i] = made]
         /\ id' = [id EXCEPT ![i] = n]
         /\ parent' = [parent EXCEPT ![made] = i]
  BY Zenon DEF ExecAlloc
<1>3. made < MaxObj /\ made \in 1 .. MaxObj
  BY <1>1, InvParts, Zenon DEF Holding, HoldingAt, TypeOK
<1>4. PICK o \in Obj : o = made
  BY <1>3, ProcTableAssumption DEF Obj
<1>5. /\ pcb[n] = NULL /\ pc[o] = "none" /\ o # i /\ o \notin alive /\ o # NULL /\ o # Main
      /\ processID[i] \in Slot /\ i \in alive
  <2>1. pcb[n] = NULL
    BY <1>2, ProcTableAssumption DEF GetFreeSlot, Slot
  <2>2. pc[o] = "none" /\ o \notin alive
    BY <1>3, <1>4, InvParts DEF Structure
  <2>3. o # NULL /\ o # Main
    BY <1>3, <1>4, ProcTableAssumption DEF Main
  <2>4. processID[i] \in Slot /\ i \in alive
    BY <1>1, OwnEntry
  <2> QED BY <1>1, <2>1, <2>2, <2>3, <2>4, Zenon
<1>6. /\ pc' \in [Obj -> PC] /\ pc'[o] = "new" /\ pc'[i] \in {"exec2", "execv2"}
      /\ \A q \in Obj : q # i /\ q # o => pc'[q] = pc[q]
  BY <1>1, <1>2, <1>4, <1>5, InvParts DEF TypeOK, PC
<1>7. /\ pcb' \in [Slot -> Obj \cup {NULL}] /\ pcb'[n] = o
      /\ \A m \in Slot : m # n => pcb'[m] = pcb[m]
  BY <1>2, <1>4, InvParts, Zenon DEF TypeOK
<1>8. /\ processID' \in [Obj -> Slot \cup {NULL}] /\ processID'[o] = n
      /\ parentID' \in [Obj -> Slot \cup {-1, NULL}] /\ parentID'[o] = processID[i]
      /\ parent' \in [Obj -> Obj \cup {NULL}] /\ parent'[o] = i
      /\ \A q \in Obj : q # o => /\ processID'[q] = processID[q] /\ parentID'[q] = parentID[q]
                                 /\ parent'[q] = parent[q]
  BY <1>2, <1>4, <1>5, InvParts DEF TypeOK
<1>9. /\ ref' \in [Obj -> Obj \cup {NULL}] /\ ref'[i] = o
      /\ id' \in [Obj -> Slot \cup {NULL}]
      /\ \A q \in Obj : q # i => ref'[q] = ref[q] /\ id'[q] = id[q]
  BY <1>2, <1>4, InvParts DEF TypeOK
<1>10. sem' \in [Obj -> Sems] /\ Mutex(o)' = 0 /\ Joinsem(o)' = 0 /\ Exitsem(o)' = 0
  BY <1>2, <1>4, InvParts DEF TypeOK, Sems, NewSems, Mutex, Joinsem, Exitsem
<1>11. \A q \in Obj : q # o => /\ Mutex(q)' = Mutex(q) /\ Joinsem(q)' = Joinsem(q)
                               /\ Exitsem(q)' = Exitsem(q)
  BY <1>2, <1>4, InvParts DEF TypeOK, Mutex, Joinsem, Exitsem
<1>12. TypeOK'
  <2>1. made' \in 1 .. MaxObj /\ alive' \subseteq 0 .. made' - 1
    <3>1. alive \subseteq 0 .. made - 1
      BY InvParts, Zenon DEF TypeOK
    <3> QED BY <1>1, <1>2, <1>3, <3>1, ProcTableAssumption
  <2> QED BY <1>1, <1>6, <1>7, <1>8, <1>9, <1>10, <2>1, InvParts DEF TypeOK, Sems
<1>13. alive' = alive \cup {o} /\ alive \subseteq Obj
  BY <1>2, <1>4, AliveAreObjects, InvParts, Zenon
<1>14. Structure'
  <2>1. \A q \in Obj : pc'[q] = "none" <=> q >= made'
    <3>1. \A q \in Obj : (pc[q] = "none" <=> q >= made) /\ q \in Int
      BY InvParts DEF Structure, Obj
    <3> QED BY <1>1, <1>3, <1>4, <1>5, <1>6, <3>1
  <2>2. \A q \in Obj : q \in alive' <=> pc'[q] \notin {"none", "gone"}
    <3>1. \A q \in Obj : q \in alive <=> pc[q] \notin {"none", "gone"}
      BY InvParts, Zenon DEF Structure
    <3> QED BY <1>5, <1>6, <1>13, <3>1
  <2>3. \A q \in alive : /\ processID[q] \in Slot /\ pcb[processID[q]] = q
                         /\ processID[q] # n /\ q # o /\ q \in Obj
    BY <1>5, <1>13, AliveAreObjects, InvParts DEF Structure
  <2>4. \A q \in alive' : processID'[q] \in Slot /\ pcb'[processID'[q]] = q
    BY <1>7, <1>8, <1>13, <2>3
  <2>5. \A m \in Slot : pcb[m] # NULL => pcb[m] \in alive /\ processID[pcb[m]] = m
    BY InvParts, Zenon DEF Structure
  <2>6. \A m \in Slot : pcb'[m] # NULL => pcb'[m] \in alive' /\ processID'[pcb'[m]] = m
    BY <1>7, <1>8, <1>13, <2>3, <2>5
  <2>7. \A q \in alive : q # Main =>
          /\ parent[q] \in Obj /\ pc[parent[q]] # "none"
          /\ parentID[q] \in Slot /\ parentID[q] = processID[parent[q]]
    BY InvParts, Zenon DEF Structure
  <2>8. ASSUME NEW q \in alive', q # Main
        PROVE  /\ parent'[q] \in Obj /\ pc'[parent'[q]] # "none"
               /\ parentID'[q] \in Slot /\ parentID'[q] = processID'[parent'[q]]
    <3>1. CASE q = o
      BY <1>5, <1>6, <1>8, <3>1, Zenon
    <3>2. CASE q \in alive
      BY <1>5, <1>6, <1>8, <2>3, <2>7, <2>8, <3>2, SMTT(30)
    <3> QED BY <1>13, <3>1, <3>2, Zenon
  <2> QED BY <2>1, <2>2, <2>4, <2>6, <2>8, Zenon DEF Structure
<1>15. OneCreates'
  BY <1>1, <1>5, <1>6, CreatesKept DEF Creating
<1>16. \A q \in Obj : ref[q] # o
  BY <1>3, <1>4, <1>5, InvParts DEF Holding, HoldingAt
<1>17. OneInside'
  <2>1. ASSUME NEW x \in Obj PROVE InsideAt(x)'
    <3>1. InsideAt(x)
      BY InvParts DEF OneInside
    <3>2. CASE x = o
      <4>1. \A q \in Obj : pc'[q] \in Inside /\ ref'[q] = o => q = i
        BY <1>9, <1>16, Zenon
      <4> QED BY <1>10, <3>2, <4>1, Zenon DEF InsideAt
    <3>3. CASE x # o
      <4>1. Mutex(x)' = Mutex(x)
        BY <1>11, <3>3, Zenon
      <4>2. \A q \in Obj : pc'[q] \in Inside /\ ref'[q] = x => pc[q] \in Inside /\ ref[q] = x
        BY <1>6, <1>9, <3>3, Zenon DEF Inside
      <4> QED BY <3>1, <4>1, <4>2, Zenon DEF InsideAt
    <3> QED BY <3>2, <3>3
  <2> QED BY <2>1 DEF OneInside
<1>18. OneUnit'
  <2>1. \A q \in Obj : pc'[q] = "join5" => pc[q] = "join5" /\ ref'[q] = ref[q]
    BY <1>6, <1>9, Zenon
  <2>2. UnitAt(o)'
    BY <1>10, <1>16, <2>1 DEF UnitAt
  <2>3. \A q \in Obj : pc[q] = "exit4" => pc'[q] = "exit4"
    BY <1>1, <1>5, <1>6, Zenon
  <2> QED BY <1>11, <2>1, <2>2, <2>3, UnitMoves, Zenon
<1>19. Holding'
  <2>1. HoldingAt(i)'
    BY <1>1, <1>3, <1>4, <1>6, <1>9 DEF HoldingAt, Uses, Making, Joining, Exiting
  <2>2. HoldingAt(o)'
    <3>1. ref[o] # NULL => ref[o] \in Int /\ ref[o] < made
      BY InvParts DEF TypeOK, Holding, HoldingAt, Obj
    <3>2. ref'[o] # NULL => ref'[o] < made'
      BY <1>1, <1>3, <1>5, <1>9, <3>1
    <3> QED BY <1>6, <3>2, Zenon DEF HoldingAt, Uses, Making, Joining, Exiting
  <2>3. ASSUME NEW q \in Obj, q # i, q # o PROVE HoldingAt(q)'
    <3>1. HoldingAt(q) /\ ref[q] \in Obj \cup {NULL} /\ ref[q] # o
      BY <1>16, InvParts, Zenon DEF Holding, TypeOK
    <3>2. pc[q] \notin {"exec1", "execv1", "exec2", "execv2"}
      BY <1>1, <2>3, InvParts DEF OneCreates, Creating
    <3>3. ref[q] # NULL => ref[q] < made + 1
      BY <1>3, <3>1 DEF HoldingAt, Obj
    <3>4. pc[q] \in {"join4", "join5"} => processID'[ref[q]] = processID[ref[q]]
      BY <1>8, <3>1, Zenon DEF HoldingAt, Uses
    <3> QED BY <1>1, <1>6, <1>9, <2>3, <3>1, <3>2, <3>3, <3>4, SMTT(30) DEF HoldingAt
  <2> QED BY <2>1, <2>2, <2>3, Zenon DEF Holding
<1>20. ASSUME Orderly' PROVE Families'
  <2>1. Orderly /\ Families /\ kids \in [Obj -> SUBSET Obj]
    BY <1>1, <1>20, InvParts, Zenon DEF TypeOK, Orderly
  <2>2. \A x \in Obj : Reaped(x)' <=> Reaped(x)
    <3>1. \A x \in Obj : x # o => (Reaped(x)' <=> Reaped(x))
      BY <1>1, <1>6, <1>11, ReapedKept, Zenon
    <3>2. ~Reaped(o)' /\ ~Reaped(o)
      BY <1>5, <1>6, Zenon DEF Reaped
    <3> QED BY <3>1, <3>2
  <2>3. ASSUME NEW x \in alive' PROVE KeptByParent(x)'
    <3>1. CASE x = o
      BY <1>6, <1>8, <1>9, <3>1, SMTT(30) DEF KeptByParent, Making
    <3>2. CASE x \in alive
      <4>1. /\ KeptByParent(x) /\ x \in Obj /\ x # o
            /\ x # Main => parent[x] \in Obj /\ parent[x] # o
        BY <1>5, <1>13, <2>1, <3>2, InvParts, Zenon DEF Families, Structure
      <4>2. pc[i] \notin Making
        BY <1>1 DEF Making
      <4> QED BY <1>1, <1>6, <1>8, <1>9, <2>2, <4>1, <4>2, SMTT(30) DEF KeptByParent
    <3> QED BY <1>13, <3>1, <3>2, Zenon
  <2>4. FamilyAt(o)'
    <3>1. kids[o] = {}
      BY <1>5, <2>1, Zenon DEF Families, FamilyAt
    <3> QED BY <1>1, <1>6, <3>1, Zenon DEF FamilyAt, Joining, Making, Exiting
  <2>5. ASSUME NEW q \in Obj, q # o PROVE \A x \in kids[q] : x \in alive' /\ parent'[x] = q /\ ~Reaped(x)'
    <3>1. \A x \in kids[q] : x \in Obj /\ x \in alive /\ parent[x] = q /\ ~Reaped(x)
      BY <2>1 DEF Families, FamilyAt
    <3> QED BY <1>5, <1>8, <1>13, <2>2, <3>1
  <2>6. FamilyAt(i)'
    <3>1. o \in alive' /\ parent'[o] = i /\ ~Reaped(o)'
      BY <1>6, <1>8, <1>13, SMTT(30) DEF Reaped
    <3> QED BY <1>1, <1>5, <1>6, <1>9, <2>5, <3>1, Zenon DEF FamilyAt, Joining, Making, Exiting
  <2>7. ASSUME NEW q \in Obj, q # o, q # i PROVE FamilyAt(q)'
    <3>1. FamilyAt(q)
      BY <2>1, Zenon DEF Families
    <3>2. pc[q] \notin Making
      BY <1>1, <2>7, InvParts, Zenon DEF OneCreates, Creating, Making
    <3>3. pc[q] \in Joining => id[q] \in Slot /\ pcb'[id[q]] = pcb[id[q]]
      <4>1. pc[q] \in Joining => id[q] \in Slot /\ pcb[id[q]] \in Obj
        BY <2>1, <3>1, InvParts, Zenon DEF Holding, HoldingAt, FamilyAt
      <4>2. NULL \notin Obj
        BY AliveAreObjects, InvParts, SMTT(30)
      <4> QED BY <1>5, <1>7, <4>1, <4>2, SMTT(30)
    <3> QED BY <1>1, <1>6, <1>8, <1>9, <2>5, <2>7, <3>1, <3>2, <3>3, SMTT(30)
           DEF FamilyAt, Joining
  <2> QED BY <1>1, <2>1, <2>3, <2>4, <2>6, <2>7, Zenon DEF Families
<1> QED BY <1>12, <1>14, <1>15, <1>17, <1>18, <1>19, <1>20, InvHolds
-----------------------------------------------------------------------------
(* P() on the mutex of o, by a program that calls Join or Exit: process i  *)
(* has it, or sleeps.                                                      *)
LEMMA CallMutex ==
    ASSUME IInv, NEW i \in Obj, NEW o \in Obj, pc[i] = "user",
           NEW waiting \in {"join1", "exit1"}, NEW after \in {"join2", "exit2"},
           P(i, o, "mutex", waiting, after), ref'[i] = o,
           \A q \in Obj : q # i => ref'[q] = ref[q]
    PROVE  /\ pc' \in [Obj -> PC] /\ pc'[i] \in {waiting, after}
           /\ \A q \in Obj : q # i => pc'[q] = pc[q]
           /\ sem' \in [Obj -> Sems] /\ OneInside' /\ OneUnit'
           /\ \A q \in Obj : Reaped(q)' <=> Reaped(q)
<1>1. PICK to \in {waiting, after} : Go(i, to)
  BY Zenon DEF P, Take
<1>2. pc' \in [Obj -> PC] /\ pc'[i] = to /\ \A q \in Obj : q # i => pc'[q] = pc[q]
  BY <1>1, GoTo, SMTT(30) DEF PC
<1>3. CASE Take(i, o, "mutex", after)
  <2>1. sem[o]["mutex"] > 0 /\ sem' = [sem EXCEPT ![o]["mutex"] = @ - 1]
    BY <1>3, Zenon DEF Take
  <2>2. /\ sem' \in [Obj -> Sems] /\ Mutex(o) = 1 /\ Mutex(o)' = 0
        /\ \A q \in Obj : q # o => Mutex(q)' = Mutex(q)
        /\ \A q \in Obj : Joinsem(q)' = Joinsem(q) /\ Exitsem(q)' = Exitsem(q)
    BY <2>1, TakeMutex, Zenon
  <2>3. OneInside'
    BY <1>2, <2>2, MutexTaken
  <2>4. OneUnit'
    BY <1>2, <2>2, UnitKept, Zenon
  <2>5. \A q \in Obj : Reaped(q)' <=> Reaped(q)
    BY <1>2, <2>2, ReapedKept, SMTT(30)
  <2> QED BY <1>2, <2>2, <2>3, <2>4, <2>5, Zenon
<1>4. CASE sem' = sem /\ Go(i, waiting)
  <2>1. pc'[i] = waiting
    BY <1>4, GoTo, Zenon DEF PC
  <2>2. /\ sem' \in [Obj -> Sems] /\ \A q \in Obj : Mutex(q)' = Mutex(q)
        /\ \A q \in Obj : Joinsem(q)' = Joinsem(q) /\ Exitsem(q)' = Exitsem(q)
    BY <1>4, SemKept, Zenon
  <2>3. OneInside'
    BY <1>2, <2>1, <2>2, InsideKept, Zenon DEF Inside
  <2>4. OneUnit'
    BY <1>2, <2>2, UnitKept, Zenon
  <2>5. \A q \in Obj : Reaped(q)' <=> Reaped(q)
    BY <1>2, <2>2, ReapedKept, SMTT(30)
  <2> QED BY <1>2, <2>2, <2>3, <2>4, <2>5, SMTT(30)
<1> QED BY <1>3, <1>4, Zenon DEF P

(* JoinUpdate: the PCB in which the caller counts itself is its own, and   *)
(* the id of an orderly program is that of one of its children.            *)
LEMMA JoinUpdateStep ==
    ASSUME IInv, NEW i \in Obj, JoinUpdate(i), UNCHANGED discipline
    PROVE  IInv'
<1>1. pc[i] = "user" /\ UNCHANGED <<table, kids, machine>>
  BY Zenon DEF JoinUpdate, At
<1>2. PICK n \in JoinArg(i) :
         /\ MayJoin(i, n)
         /\ id' = [id EXCEPT ![i] = n]
         /\ ref' = [ref EXCEPT ![i] = pcb[parentID[pcb[n]]]]
         /\ P(i, pcb[parentID[pcb[n]]], "mutex", "join1", "join2")
  BY ZenonT(30) DEF JoinUpdate
<1>3. n \in Slot /\ pcb[parentID[pcb[n]]] = i
  BY <1>1, <1>2, OwnEntry, Zenon DEF MayJoin, Own
<1>4. UNCHANGED <<pcb, bmsem, made, alive, processID, parentID, exitcode, parent,
                  kids, machine, discipline>>
  BY <1>1, Zenon DEF table
<1>5. /\ id' \in [Obj -> Slot \cup {NULL}] /\ id'[i] = n
      /\ ref' \in [Obj -> Obj \cup {NULL}] /\ ref'[i] = i
      /\ \A q \in Obj : q # i => ref'[q] = ref[q] /\ id'[q] = id[q]
  BY <1>2, <1>3, InvParts, Zenon DEF TypeOK
<1>6. P(i, i, "mutex", "join1", "join2")
  BY <1>2, <1>3, SMTT(30)
<1>7. /\ pc' \in [Obj -> PC] /\ pc'[i] \in {"join1", "join2"}
      /\ \A q \in Obj : q # i => pc'[q] = pc[q]
      /\ sem' \in [Obj -> Sems] /\ OneInside' /\ OneUnit'
      /\ \A q \in Obj : Reaped(q)' <=> Reaped(q)
  BY <1>1, <1>5, <1>6, CallMutex, Zenon
<1>8. HoldingAt(i)'
  <2>1. i < made
    BY <1>1, InvParts DEF Structure, TypeOK, Obj
  <2> QED BY <1>3, <1>4, <1>5, <1>7, <2>1, SMTT(30) DEF HoldingAt, Uses, Making, Joining, Exiting
<1>9. OneCreates'
  BY <1>1, <1>4, <1>7, CreatesKept, SMTT(30) DEF Creating
<1>10. ASSUME Orderly PROVE FamilyAt(i)'
  <2>1. FamilyAt(i) /\ \A x \in kids[i] : x \in Obj
    BY <1>10, InvParts, Zenon DEF Families, TypeOK
  <2>2. PICK k \in kids[i] : n = processID[k]
    BY <1>10, SMTT(30) DEF JoinArg, Orderly
  <2>3. pcb[n] = k
    BY <2>1, <2>2, InvParts, SMTT(30) DEF Structure, FamilyAt
  <2> QED BY <1>4, <1>5, <1>7, <2>1, <2>3, SMTT(30) DEF FamilyAt, Joining, Making, Exiting
<1>11. pc[i] \notin Making /\ bmsem' \in 0..1 /\ exitcode' \in [Obj -> Code \cup {Junk}]
  BY <1>1, <1>4, InvParts, SMTT(30) DEF TypeOK, Making
<1> QED BY <1>1, <1>4, <1>5, <1>7, <1>8, <1>9, <1>10, <1>11, LocalStep, SMTT(30)

(* JoinWait: the child of an orderly process is there, whether its unit is *)
(* or not.                                                                 *)
LEMMA JoinWaitStep ==
    ASSUME IInv, NEW i \in Obj, JoinWait(i), UNCHANGED discipline
    PROVE  IInv'
<1>1. pc[i] = "join3" /\ id[i] \in Slot
  BY InvParts, Zenon DEF JoinWait, At, Holding, HoldingAt, Joining
<1>2. CASE Crash(pcb[id[i]])
  <2>1. Orderly => Valid(pcb[id[i]])
    BY <1>1, AliveAreObjects, InvParts, SMTT(30) DEF Families, FamilyAt, Joining, Valid
  <2> QED BY <1>2, <2>1, CrashStep, SMTT(30)
<1>3. CASE ~Crash(pcb[id[i]])
  <2>1. PICK o \in alive : o = pcb[id[i]]
    BY <1>3, Zenon DEF JoinWait, Valid
  <2>2. o \in Obj /\ o < made /\ processID[o] = id[i]
    <3>1. o \in Obj /\ o # NULL
      BY AliveAreObjects, InvParts, Zenon
    <3>2. o < made
      BY <3>1, ProcTableAssumption, InvParts, SMTT(30) DEF TypeOK, Obj
    <3> QED BY <1>1, <2>1, <3>1, <3>2, InvParts, Zenon DEF Structure
  <2>3. /\ ref' = [ref EXCEPT ![i] = o] /\ P(i, o, "join", "join4", "join5")
        /\ UNCHANGED <<pcb, bmsem, made, alive, processID, parentID, exitcode, parent,
                       id, kids, machine, discipline>>
    BY <1>3, <2>1, SMTT(30) DEF JoinWait, table
  <2>4. /\ ref' \in [Obj -> Obj \cup {NULL}] /\ ref'[i] = o
        /\ \A q \in Obj : q # i => ref'[q] = ref[q]
    BY <2>2, <2>3, InvParts, Zenon DEF TypeOK
  <2>5. PICK to \in {"join4", "join5"} : Go(i, to)
    BY <2>3, Zenon DEF P, Take
  <2>6. pc' \in [Obj -> PC] /\ pc'[i] = to /\ \A q \in Obj : q # i => pc'[q] = pc[q]
    BY <2>5, GoTo, Zenon DEF PC
  <2>7. /\ sem' \in [Obj -> Sems] /\ OneUnit'
        /\ \A q \in Obj : Mutex(q)' = Mutex(q)
        /\ \A q \in Obj : Reaped(q)' <=> Reaped(q)
    <3>1. CASE Take(i, o, "join", "join5")
      BY <1>1, <2>2, <2>4, <3>1, UnitTaken, Zenon
    <3>2. CASE sem' = sem /\ Go(i, "join4")
      <4>1. pc'[i] = "join4"
        BY <3>2, GoTo, Zenon DEF PC
      <4>2. /\ sem' \in [Obj -> Sems] /\ \A q \in Obj : Mutex(q)' = Mutex(q)
            /\ \A q \in Obj : Joinsem(q)' = Joinsem(q) /\ Exitsem(q)' = Exitsem(q)
        BY <3>2, SemKept, SMTT(30)
      <4>3. OneUnit'
        BY <1>1, <2>4, <2>6, <4>1, <4>2, UnitKept, SMTT(30)
      <4>4. \A q \in Obj : Reaped(q)' <=> Reaped(q)
        BY <1>1, <2>6, <4>2, ReapedKept, SMTT(30)
      <4> QED BY <4>2, <4>3, <4>4, Zenon
    <3> QED BY <2>3, <3>1, <3>2, SMTT(30) DEF P
  <2>8. OneInside'
    BY <2>4, <2>6, <2>7, InsideKept, SMTT(30) DEF Inside
  <2>9. HoldingAt(i)'
    BY <1>1, <2>2, <2>3, <2>4, <2>6, Zenon DEF HoldingAt, Uses, Making, Joining, Exiting
  <2>10. OneCreates'
    BY <2>3, <2>6, CreatesKept, Zenon DEF Creating
  <2>11. ASSUME Orderly PROVE FamilyAt(i)'
    <3>1. FamilyAt(i) /\ \A x \in kids[i] : x \in Obj
      BY <2>11, InvParts, Zenon DEF Families, TypeOK
    <3> QED BY <1>1, <2>1, <2>3, <2>4, <2>6, <2>7, <3>1, ZenonT(30)
           DEF FamilyAt, Joining, Making, Exiting
  <2>12. /\ pc[i] \notin Making /\ bmsem' \in 0..1 /\ exitcode' \in [Obj -> Code \cup {Junk}]
         /\ id' \in [Obj -> Slot \cup {NULL}]
    BY <1>1, <2>3, InvParts, SMTT(30) DEF TypeOK, Making
  <2> QED BY <1>1, <2>3, <2>4, <2>6, <2>7, <2>8, <2>9, <2>10, <2>11, <2>12, LocalStep, SMTT(30)
<1> QED BY <1>2, <1>3, SMTT(30)

(* ExitUpdate: the parent of an orderly process is there.                  *)
LEMMA ExitUpdateStep ==
    ASSUME IInv, NEW i \in Obj, ExitUpdate(i), UNCHANGED discipline
    PROVE  IInv'
<1>1. i # Main /\ pc[i] = "user" /\ (Orderly => kids[i] = {}) /\ Own(i) = i /\ i \in alive
  BY OwnEntry, Zenon DEF ExitUpdate, At
<1>2. parentID[i] \in Slot /\ (Orderly => Valid(parent[i]) /\ pcb[parentID[i]] = parent[i])
  <2>1. ~Reaped(i)
    BY <1>1, Zenon DEF Reaped
  <2> QED BY <1>1, <2>1, ParentThere, InvParts, Zenon DEF Structure
<1>3. CASE Crash(pcb[parentID[i]])
  BY <1>2, <1>3, CrashStep, Zenon
<1>4. CASE ~Crash(pcb[parentID[i]])
  <2>1. PICK o \in alive : o = pcb[parentID[i]]
    BY <1>1, <1>4, ZenonT(30) DEF ExitUpdate, Valid
  <2>2. PICK c \in Code : exitcode' = [exitcode EXCEPT ![i] = c]
    BY <1>1, <1>4, SMTT(30) DEF ExitUpdate
  <2>3. /\ ref' = [ref EXCEPT ![i] = o] /\ P(i, o, "mutex", "exit1", "exit2")
        /\ UNCHANGED <<pcb, bmsem, made, alive, processID, parentID, parent, id, kids,
                       machine, discipline>>
    BY <1>1, <1>4, <2>1, Zenon DEF ExitUpdate
  <2>4. o \in Obj /\ o < made
    <3>1. o \in Obj
      BY AliveAreObjects, InvParts, Zenon
    <3> QED BY <3>1, ProcTableAssumption, InvParts DEF TypeOK, Obj
  <2>5. /\ ref' \in [Obj -> Obj \cup {NULL}] /\ ref'[i] = o
        /\ exitcode' \in [Obj -> Code \cup {Junk}] /\ exitcode'[i] # Junk
        /\ \A q \in Obj : q # i => ref'[q] = ref[q] /\ exitcode'[q] = exitcode[q]
    BY <2>2, <2>3, <2>4, ProcTableAssumption, InvParts, SMTT(30) DEF TypeOK
  <2>6. /\ pc' \in [Obj -> PC] /\ pc'[i] \in {"exit1", "exit2"}
        /\ \A q \in Obj : q # i => pc'[q] = pc[q]
        /\ sem' \in [Obj -> Sems] /\ OneInside' /\ OneUnit'
        /\ \A q \in Obj : Reaped(q)' <=> Reaped(q)
    BY <1>1, <2>3, <2>4, <2>5, CallMutex, SMTT(30)
  <2>7. HoldingAt(i)'
    BY <1>1, <2>3, <2>4, <2>5, <2>6, SMTT(30) DEF HoldingAt, Uses, Making, Joining, Exiting
  <2>8. OneCreates'
    BY <2>3, <2>6, CreatesKept, SMTT(30) DEF Creating
  <2>9. ASSUME Orderly PROVE FamilyAt(i)'
    BY <1>1, <1>2, <2>1, <2>3, <2>5, <2>6, <2>9, SMTT(30) DEF FamilyAt, Joining, Making, Exiting
  <2>10. pc[i] \notin Making /\ bmsem' \in 0..1 /\ id' \in [Obj -> Slot \cup {NULL}]
    BY <1>1, <2>3, InvParts, SMTT(30) DEF TypeOK, Making
  <2> QED BY <1>1, <2>3, <2>5, <2>6, <2>7, <2>8, <2>9, <2>10, LocalStep, ZenonT(30)
<1> QED BY <1>3, <1>4
-----------------------------------------------------------------------------
(* Who got through joinsem finds the child it waited for in pcb[id].       *)
LEMMA JoinedIsThere ==
    ASSUME IInv, NEW i \in Obj, pc[i] = "join5"
    PROVE  /\ ref[i] \in Obj /\ ref[i] \in alive /\ pcb[id[i]] = ref[i]
           /\ pc[ref[i]] = "exit4" /\ Joinsem(ref[i]) = 0 /\ Exitsem(ref[i]) = 0
<1>1. ref[i] \in Obj /\ processID[ref[i]] = id[i]
  BY InvParts, Zenon DEF Holding, HoldingAt, Uses
<1>2. pc[ref[i]] = "exit4" /\ Joinsem(ref[i]) = 0 /\ Exitsem(ref[i]) = 0
  BY <1>1, InvParts, Zenon DEF OneUnit, UnitAt
<1> QED BY <1>1, <1>2, InvParts DEF Structure

(* JoinReturn: the parent lets the child go.                               *)
LEMMA JoinReturnStep ==
    ASSUME IInv, NEW i \in Obj, JoinReturn(i), UNCHANGED discipline
    PROVE  IInv'
<1>1. pc[i] = "join5" /\ Go(i, "user")
  BY Zenon DEF JoinReturn, At
<1>2. PICK o \in Obj : /\ o = ref[i] /\ o \in alive /\ pcb[id[i]] = o
                       /\ pc[o] = "exit4" /\ Joinsem(o) = 0 /\ Exitsem(o) = 0
  BY <1>1, JoinedIsThere, SMTT(30)
<1>3. /\ V(o, "exit") /\ kids' = [kids EXCEPT ![i] = @ \ {o}]
      /\ UNCHANGED <<pcb, bmsem, made, alive, processID, parentID, exitcode, parent,
                     id, ref, machine, discipline>>
  BY <1>2, SMTT(30) DEF JoinReturn, table, locals
<1>4. /\ kids' \in [Obj -> SUBSET Obj] /\ kids'[i] = kids[i] \ {o}
      /\ \A q \in Obj : q # i => kids'[q] = kids[q]
  BY <1>3, InvParts, Zenon DEF TypeOK
<1>5. pc' \in [Obj -> PC] /\ pc'[i] = "user" /\ \A q \in Obj : q # i => pc'[q] = pc[q]
  BY <1>1, GoTo, SMTT(30) DEF PC
<1>6. /\ sem' \in [Obj -> Sems] /\ Exitsem(o)' = 1
      /\ \A q \in Obj : q # o => Exitsem(q)' = Exitsem(q)
      /\ \A q \in Obj : Mutex(q)' = Mutex(q) /\ Joinsem(q)' = Joinsem(q)
  BY <1>2, <1>3, GiveExit, Zenon
<1>7. TypeOK'
  BY <1>3, <1>4, <1>5, <1>6, InvParts, ZenonT(30) DEF TypeOK, Sems
<1>8. Structure'
  BY <1>1, <1>3, <1>5, StructureKept, Zenon
<1>9. Holding'
  <2>1. HoldingAt(i)
    BY InvParts, Zenon DEF Holding
  <2>2. HoldingAt(i)'
    BY <1>3, <1>5, <2>1, Zenon DEF HoldingAt, Uses, Making, Joining, Exiting
  <2> QED BY <1>1, <1>3, <1>5, <2>2, HoldingKept, Zenon
<1>10. OneCreates'
  BY <1>3, <1>5, CreatesKept, SMTT(30) DEF Creating
<1>11. OneInside'
  BY <1>3, <1>5, <1>6, InsideKept, SMTT(30) DEF Inside
<1>12. OneUnit'
  <2>1. \A q \in Obj : pc[q] = "join5" /\ ref[q] = o => q = i
    BY <1>1, <1>2, InvParts, SMTT(30) DEF OneUnit, UnitAt
  <2>2. \A q \in Obj : pc'[q] = "join5" => pc[q] = "join5" /\ ref'[q] = ref[q] /\ ref'[q] # o
    BY <1>3, <1>5, <2>1, SMTT(30)
  <2>3. pc'[o] = "exit4"
    BY <1>1, <1>2, <1>5, SMTT(30)
  <2>4. UnitAt(o)'
    BY <1>2, <1>6, <2>2, <2>3, Zenon DEF UnitAt
  <2>5. \A q \in Obj : pc[q] = "exit4" => pc'[q] = "exit4"
    BY <1>1, <1>5, Zenon
  <2> QED BY <1>6, <2>2, <2>4, <2>5, UnitMoves, SMTT(30)
<1>13. ASSUME Orderly' PROVE Families'
  <2>1. Orderly /\ Families /\ alive \subseteq Obj /\ kids \in [Obj -> SUBSET Obj]
    BY <1>3, <1>13, AliveAreObjects, InvParts, Zenon DEF TypeOK, Orderly
  <2>2. FamilyAt(i) /\ o \in kids[i] /\ parent[o] = i
    <3>1. FamilyAt(i)
      BY <2>1, Zenon DEF Families
    <3>2. o \in kids[i]
      BY <1>1, <1>2, <3>1, Zenon DEF FamilyAt, Joining
    <3> QED BY <3>1, <3>2, Zenon DEF FamilyAt
  <2>3. \A x \in Obj : x # o => (Reaped(x)' <=> Reaped(x))
    BY <1>1, <1>5, <1>6, ReapedKept, SMTT(30)
  <2>4. Reaped(o)'
    BY <1>1, <1>2, <1>5, <1>6 DEF Reaped
  <2>5. ASSUME NEW x \in alive PROVE KeptByParent(x)'
    <3>1. KeptByParent(x) /\ x \in Obj /\ (x # Main => parent[x] \in Obj)
      BY <2>1, InvParts, Zenon DEF Families, Structure
    <3>2. pc[i] \notin Making
      BY <1>1, Zenon DEF Making
    <3> QED BY <1>3, <1>4, <1>5, <2>3, <2>4, <3>1, <3>2, ZenonT(30) DEF KeptByParent
  <2>6. ASSUME NEW q \in Obj PROVE FamilyAt(q)'
    <3>1. FamilyAt(q) /\ (\A x \in kids[q] : x \in Obj)
      BY <2>1, Zenon DEF Families
    <3>2. pc[q] \in Making => ref[q] \in Obj /\ ref[q] # o
      <4>1. HoldingAt(q)
        BY InvParts, Zenon DEF Holding
      <4>2. pc[q] \in Making => ref[q] \in Obj
        BY <4>1, SMTT(30) DEF HoldingAt, Uses
      <4>3. pc[q] \in Making => parent[ref[q]] = q
        BY <3>1, SMTT(30) DEF FamilyAt
      <4> QED BY <1>1, <2>2, <4>2, <4>3, Zenon DEF Making
    <3>3. \A x \in kids'[q] : x \in kids[q] /\ x # o
      BY <1>4, <2>2, <3>1, SMTT(30) DEF FamilyAt
    <3>4. CASE q = i
      BY <1>3, <1>5, <2>3, <3>1, <3>3, <3>4, SMTT(30) DEF FamilyAt, Joining, Making, Exiting
    <3>5. CASE q # i
      BY <1>3, <1>4, <1>5, <2>3, <3>1, <3>2, <3>3, <3>5, SMTT(30) DEF FamilyAt
    <3> QED BY <3>4, <3>5, Zenon
  <2> QED BY <1>3, <2>1, <2>5, <2>6, Zenon DEF Families
<1> QED BY <1>7, <1>8, <1>9, <1>10, <1>11, <1>12, <1>13, InvHolds, SMTT(30)

(* Remove: the entry of i is freed, and its PCB deleted.                   *)
LEMMA RemoveStep ==
    ASSUME IInv, NEW i \in Obj, Remove(i), UNCHANGED discipline
    PROVE  IInv'
<1>1. pc[i] = "exit5" /\ Go(i, "gone")
  BY Zenon DEF Remove, At
<1>2. UNCHANGED <<bmsem, made, processID, parentID, exitcode, parent, sem, id, ref,
                  kids, machine, discipline>>
  BY Zenon DEF Remove, locals
<1>3. PICK n \in Slot : n = processID[i] /\ Own(i) = i /\ i \in alive
  BY <1>1, OwnEntry, SMTT(30)
<1>4. /\ pcb' = [pcb EXCEPT ![n] = NULL] /\ alive' = alive \ {i}
      /\ alive \subseteq Obj /\ NULL \notin Obj
  BY <1>3, AliveAreObjects, InvParts, SMTT(30) DEF Remove
<1>5. /\ pcb' \in [Slot -> Obj \cup {NULL}] /\ pcb'[n] = NULL /\ pcb[n] = i
      /\ \A m \in Slot : m # n => pcb'[m] = pcb[m]
  BY <1>3, <1>4, InvParts, SMTT(30) DEF TypeOK, Own
<1>6. pc' \in [Obj -> PC] /\ pc'[i] = "gone" /\ \A q \in Obj : q # i => pc'[q] = pc[q]
  BY <1>1, GoTo, SMTT(30) DEF PC
<1>7. TypeOK'
  BY <1>2, <1>4, <1>5, <1>6, InvParts, Zenon DEF TypeOK
<1>8. Structure'
  <2>1. \A q \in Obj : /\ pc[q] = "none" <=> q >= made
                       /\ q \in alive <=> pc[q] \notin {"none", "gone"}
    BY InvParts, ZenonT(30) DEF Structure
  <2>2. \A q \in alive : processID[q] \in Slot /\ pcb[processID[q]] = q
    BY InvParts, Zenon DEF Structure
  <2>3. \A m \in Slot : pcb[m] # NULL => pcb[m] \in alive /\ processID[pcb[m]] = m
    BY InvParts, Zenon DEF Structure
  <2>4. \A q \in alive : q # Main =>
          /\ parent[q] \in Obj /\ pc[parent[q]] # "none"
          /\ parentID[q] \in Slot /\ parentID[q] = processID[parent[q]]
    BY InvParts, Zenon DEF Structure
  <2>5. \A q \in Obj : /\ pc'[q] = "none" <=> q >= made'
                       /\ q \in alive' <=> pc'[q] \notin {"none", "gone"}
    BY <1>1, <1>2, <1>4, <1>6, <2>1, SMTT(30)
  <2>6. \A q \in alive' : processID'[q] \in Slot /\ pcb'[processID'[q]] = q
    BY <1>2, <1>4, <1>5, <2>2, SMTT(30)
  <2>7. \A m \in Slot : pcb'[m] # NULL => pcb'[m] \in alive' /\ processID'[pcb'[m]] = m
    BY <1>2, <1>3, <1>4, <1>5, <2>3, SMTT(30)
  <2>8. \A q \in alive' : q # Main =>
          /\ parent'[q] \in Obj /\ pc'[parent'[q]] # "none"
          /\ parentID'[q] \in Slot /\ parentID'[q] = processID'[parent'[q]]
    BY <1>2, <1>4, <1>6, <2>4, Zenon
  <2> QED BY <2>5, <2>6, <2>7, <2>8, Zenon DEF Structure
<1>9. Holding'
  <2>1. HoldingAt(i)
    BY InvParts, Zenon DEF Holding
  <2>2. HoldingAt(i)'
    BY <1>2, <1>6, <2>1, Zenon DEF HoldingAt, Uses, Making, Joining, Exiting
  <2> QED BY <1>1, <1>2, <1>6, <2>2, HoldingKept, Zenon
<1>10. OneCreates'
  BY <1>2, <1>6, CreatesKept, Zenon DEF Creating
<1>11. \A q \in Obj : /\ Joinsem(q)' = Joinsem(q) /\ Exitsem(q)' = Exitsem(q)
                      /\ Mutex(q)' = Mutex(q)
  BY <1>2, SemKept, SMTT(30)
<1>12. OneInside'
  BY <1>2, <1>6, <1>11, InsideKept, SMTT(30) DEF Inside
<1>13. OneUnit'
  BY <1>1, <1>2, <1>6, <1>11, UnitKept, Zenon
<1>14. ASSUME Orderly' PROVE Families'
  <2>1. Orderly /\ Families /\ kids \in [Obj -> SUBSET Obj]
    BY <1>2, <1>14, InvParts, Zenon DEF TypeOK, Orderly
  <2>2. \A x \in Obj : x # i => (Reaped(x)' <=> Reaped(x))
    BY <1>6, <1>11, ReapedKept, SMTT(30)
  <2>3. Reaped(i) /\ kids[i] = {} /\ pc[i] \notin Making
    BY <1>1, <2>1, SMTT(30) DEF Reaped, Families, FamilyAt, Exiting, Making
  <2>4. ASSUME NEW x \in alive' PROVE KeptByParent(x)'
    <3>1. KeptByParent(x) /\ x \in Obj /\ x # i /\ (x # Main => parent[x] \in Obj)
      BY <1>4, <2>1, InvParts, Zenon DEF Families, Structure
    <3> QED BY <1>2, <1>6, <2>2, <2>3, <3>1, SMTT(30) DEF KeptByParent
  <2>5. ASSUME NEW q \in Obj PROVE FamilyAt(q)'
    <3>1. FamilyAt(q) /\ (\A x \in kids[q] : x \in Obj /\ x # i)
      BY <2>1, <2>3, SMTT(30) DEF Families, FamilyAt
    <3>2. CASE q = i
      BY <1>2, <1>6, <2>3, <3>2, Zenon DEF FamilyAt, Joining, Making, Exiting
    <3>3. CASE q # i
      <4>1. pc[q] \in Making => ref[q] \in Obj /\ ref[q] # i
        BY <2>3, <3>1, InvParts, Zenon DEF Holding, HoldingAt, Uses, FamilyAt
      <4>2. pc[q] \in Joining => pcb'[id[q]] = pcb[id[q]]
        BY <1>5, <3>1, InvParts, Zenon DEF Holding, HoldingAt, FamilyAt
      <4> QED BY <1>2, <1>4, <1>6, <2>2, <3>1, <3>3, <4>1, <4>2, Zenon DEF FamilyAt, Joining
    <3> QED BY <3>2, <3>3, SMTT(30)
  <2> QED BY <1>2, <2>1, <2>4, <2>5, SMTT(30) DEF Families
<1> QED BY <1>7, <1>8, <1>9, <1>10, <1>12, <1>13, <1>14, InvHolds, SMTT(30)
-----------------------------------------------------------------------------
(* Every step of the kernel and of the programs keeps the invariant.       *)
LEMMA NextIInv ==
    ASSUME IInv, [Next \/ Stopped]_vars
    PROVE  IInv'
<1>1. ASSUME NEW i \in Obj, Kernel(i) PROVE IInv'
  BY <1>1, BmsemStep, ExecAllocStep, ForkStep, ExecUnlockStep, ExecReturnStep, StartStep,
     MutexStep, IncNumWaitStep, JoinWaitStep, JoinWokenStep, JoinReturnStep, DecNumWaitStep,
     JoinReleaseStep, ExitWaitStep, RemoveStep, SMTT(30)
     DEF Kernel
<1>2. ASSUME NEW i \in Obj, Program(i) PROVE IInv'
  BY <1>2, BmsemStep, JoinUpdateStep, ExitUpdateStep, Zenon DEF Program
<1>3. CASE ExitMain
  BY <1>3, StopStep, Zenon DEF ExitMain
<1>4. CASE UNCHANGED vars
  <2>1. UNCHANGED <<table, sem, pc, locals, kids, machine, discipline>>
    BY <1>4, SMTT(30) DEF vars, table, locals
  <2>2. machine' \in {"up", "halted", "null_pointer", "freed_pcb"}
    BY <2>1, InvParts, Zenon DEF TypeOK
  <2>3. Orderly => machine' \in {"up", "halted"}
    BY <2>1, InvParts, Zenon DEF Families
  <2> QED BY <2>1, <2>2, <2>3, StopStep, Zenon
<1> QED BY <1>1, <1>2, <1>3, <1>4, SMTT(30) DEF Next, Stopped

(* The inductive invariant holds in every state.                           *)
THEOREM Invariance == Spec => []IInv
BY InitIInv, NextIInv, PTL DEF Spec

(* The pointers that follow from it.                                       *)
LEMMA IInvPointers ==
    ASSUME IInv PROVE NoStalePointer
<1>1. alive \subseteq Obj /\ NULL \notin Obj
  BY AliveAreObjects, InvParts, Zenon
<1>2. TypeOK
  BY InvParts, SMTT(30)
<1>3. PointersValid
  <2>1. ASSUME NEW i \in alive, pc[i] \in {"exec2", "execv2"}
        PROVE  Valid(ref[i]) /\ pc[ref[i]] = "new"
    <3>1. ref[i] \in Obj /\ pc[ref[i]] = "new"
      BY <1>1, <2>1, InvParts, SMTT(30) DEF Holding, HoldingAt, Uses, Making
    <3> QED BY <1>1, <3>1, InvParts, SMTT(30) DEF Structure, Valid
  <2>2. ASSUME NEW i \in alive, pc[i] \in {"join1", "join2"} PROVE ref[i] = i
    BY <1>1, <2>2, InvParts, SMTT(30) DEF Holding, HoldingAt
  <2>3. ASSUME NEW i \in alive, pc[i] = "join5"
        PROVE  pcb[id[i]] = ref[i] /\ Valid(ref[i])
    BY <1>1, <2>3, JoinedIsThere, SMTT(30) DEF Valid
  <2>4. \A i \in alive : Own(i) = i
    BY InvParts, Zenon DEF Structure, Own
  <2> QED BY <2>1, <2>2, <2>3, <2>4, SMTT(30) DEF PointersValid
<1>4. ASSUME Orderly PROVE NoCrash
  BY <1>4, InvParts, Zenon DEF Families, NoCrash
<1>5. ParentIsThere
  <2> SUFFICES ASSUME Orderly, NEW o \in alive
               PROVE  /\ Own(o) = o
                      /\ o # Main /\ Life(o) # "reaped" =>
                            parent[o] \in alive /\ pcb[parentID[o]] = parent[o]
    BY Zenon DEF ParentIsThere
  <2>1. Own(o) = o
    BY InvParts, Zenon DEF Structure, Own
  <2>2. Reaped(o) => Life(o) = "reaped"
    <3>1. pc[o] = "exit5" => Life(o) = "reaped"
      BY Zenon DEF Life
    <3>2. Exitsem(o) > 0 => Exitsem(o) # 0
      BY <1>1, Binary
    <3>3. pc[o] = "exit4" /\ Exitsem(o) > 0 => Life(o) = "reaped"
      BY <3>2, Zenon DEF Life, Exitsem
    <3> QED BY <3>1, <3>3, Zenon DEF Reaped
  <2> QED BY <2>1, <2>2, ParentThere, SMTT(30) DEF Valid
<1>6. DeletedUnused
  <2> SUFFICES ASSUME Orderly, NEW i \in alive, pc[i] \in {"join4", "exit1", "exit2"}
               PROVE  Valid(ref[i])
    BY Zenon DEF DeletedUnused
  <2>1. FamilyAt(i) /\ i \in Obj
    BY <1>1, InvParts, SMTT(30) DEF Families
  <2>2. CASE pc[i] = "join4"
    BY <1>1, <2>1, <2>2, SMTT(30) DEF FamilyAt, Joining, Valid
  <2>3. CASE pc[i] \in {"exit1", "exit2"}
    <3>1. ~Reaped(i) /\ ref[i] = parent[i] /\ i # Main
      BY <2>1, <2>3, InvParts, Zenon DEF Reaped, FamilyAt, Holding, HoldingAt, Exiting
    <3> QED BY <3>1, ParentThere, SMTT(30)
  <2> QED BY <2>2, <2>3, Zenon
<1>7. JoinFindsExit
  <2> SUFFICES ASSUME NEW i \in Obj, Orderly, pc[i] = "join5"
               PROVE  /\ pcb[id[i]] \in kids[i] /\ parent[pcb[id[i]]] = i
                      /\ exitcode[pcb[id[i]]] # Junk
                      /\ pc[pcb[id[i]]] = "exit4" /\ sem[pcb[id[i]]].exit = 0
    BY Zenon DEF JoinFindsExit
  <2>1. PICK o \in Obj : o = pcb[id[i]] /\ pc[o] = "exit4" /\ Exitsem(o) = 0
    BY JoinedIsThere, Zenon
  <2>2. FamilyAt(i) /\ HoldingAt(o)
    BY InvParts, Zenon DEF Families, Holding
  <2> QED BY <2>1, <2>2, ZenonT(30) DEF FamilyAt, HoldingAt, Joining, Exiting, Exitsem
<1> QED BY <1>2, <1>3, <1>4, <1>5, <1>6, <1>7, Zenon DEF NoStalePointer

(* For a table of any size and any number of processes: the pointers that  *)
(* PTable and PCB keep over a P() or V() stay good, for all programs those *)
(* of PointersValid, and for programs that Join each child once before     *)
(* they Exit all of them; Join then reads the code its own child stored.   *)
THEOREM PointersStayGood == Spec => []NoStalePointer
BY Invariance, IInvPointers, PTL

-----------------------------------------------------------------------------
(* Exec of an orderly program is Spawn: no process that has not gone has   *)
(* the entry that GetFreeSlot found.                                       *)
LEMMA AllocSpawns ==
    ASSUME IInv, IInv', Lineage, NEW i \in Obj, ExecAlloc(i), Orderly, Orderly'
    PROVE  \E o \in Obj, n \in Slot : Procs!Spawn(i, o, n)
<1>1. pc[i] \in {"exec1", "execv1"} /\ machine' = machine
  BY DEF ExecAlloc, At
<1>2. PICK n \in Slot :
         /\ GetFreeSlot(n)
         /\ processID' = [processID EXCEPT ![made] = n]
         /\ sem' = [sem EXCEPT ![made] = [NewSems EXCEPT !.mutex = 0]]
         /\ pc' = [pc EXCEPT ![made] = "new",
                     ![i] = IF @ = "exec1" THEN "exec2" ELSE "execv2"]
         /\ parent' = [parent EXCEPT ![made] = i]
  BY Zenon DEF ExecAlloc
<1>3. PICK o \in Obj : o = made /\ pc[o] = "none" /\ o # i
  <2>1. made < MaxObj /\ made \in 1 .. MaxObj
    BY <1>1, InvParts, Zenon DEF Holding, HoldingAt, TypeOK
  <2>2. PICK o \in Obj : o = made
    BY <2>1, ProcTableAssumption DEF Obj
  <2>3. pc[o] = "none"
    BY <2>1, <2>2, InvParts DEF Structure
  <2> QED BY <1>1, <2>2, <2>3, SMTT(30)
<1>4. TypeOK /\ TypeOK'
  BY Zenon DEF IInv
<1>5. /\ pc'[o] = "new" /\ pc'[i] \in {"exec2", "execv2"}
      /\ \A q \in Obj : q # i /\ q # o => pc'[q] = pc[q]
      /\ \A q \in Obj : q # o => sem'[q] = sem[q]
  BY <1>1, <1>2, <1>3, <1>4 DEF TypeOK
<1>6. Life(o) = "absent" /\ Life(o)' = "running" /\ Life(i) = "running"
  BY <1>1, <1>3, <1>5, SMTT(30) DEF Life
<1>7. ASSUME NEW q \in Obj, q # o PROVE Life(q)' = Life(q)
  BY <1>1, <1>4, <1>5, <1>7, LifeKept, Zenon DEF Exiting, Reaped, Exitsem
<1>8. ASSUME NEW q \in Obj, processID[q] = n PROVE Life(q) = "freed"
  <2>1. pcb[n] = NULL /\ NULL \notin alive
    BY <1>2, <1>4, AliveAreObjects, ProcTableAssumption, SMTT(30) DEF GetFreeSlot, Slot
  <2>2. pc[q] # "none"
    BY <1>8, AliveAreObjects, InvParts, SMTT(30) DEF Structure, Lineage
  <2>3. pc[q] = "gone"
    BY <1>8, <2>1, <2>2, InvParts, SMTT(30) DEF Structure
  <2> QED BY <2>3, Zenon DEF Life
<1>9. /\ processID \in [Obj -> Slot \cup {NULL}] /\ parent \in [Obj -> Obj \cup {NULL}]
  BY <1>4, Zenon DEF TypeOK
<1>10. Procs!Spawn(i, o, n)
  BY <1>1, <1>2, <1>3, <1>6, <1>7, <1>8, <1>9, ZenonT(30) DEF Procs!Spawn, Shown
<1> QED BY <1>10, Zenon

(* The end of Join: the caller, who made the child, is running.            *)
LEMMA JoinReaps ==
    ASSUME IInv, IInv', NEW i \in Obj, JoinReturn(i), Orderly, Orderly'
    PROVE  \E o \in Obj : Procs!Reap(o)
<1>1. pc[i] = "join5" /\ Go(i, "user") /\ TypeOK /\ TypeOK'
  BY SMTT(30) DEF JoinReturn, At, IInv
<1>2. PICK o \in Obj : o = ref[i] /\ pcb[id[i]] = o /\ pc[o] = "exit4" /\ Exitsem(o) = 0
  BY <1>1, JoinedIsThere, Zenon
<1>3. V(o, "exit") /\ UNCHANGED <<processID, parent, machine>>
  BY <1>2, ZenonT(30) DEF JoinReturn, table
<1>4. Exitsem(o)' = 1 /\ \A q \in Obj : q # o => Exitsem(q)' = Exitsem(q)
  BY <1>2, <1>3, GiveExit, SMTT(30)
<1>5. pc'[i] = "user" /\ \A q \in Obj : q # i => pc'[q] = pc[q]
  BY <1>1, GoTo, SMTT(30) DEF PC
<1>6. parent[o] = i
  BY <1>1, <1>2, InvParts, ZenonT(30) DEF Families, FamilyAt, Joining
<1>7. Life(o) = "exited" /\ Life(o)' = "reaped" /\ Life(i) = "running"
  BY <1>1, <1>2, <1>4, <1>5, SMTT(30) DEF Life, Exitsem
<1>8. ASSUME NEW q \in Obj, q # o PROVE Life(q)' = Life(q)
  BY <1>1, <1>4, <1>5, <1>8, LifeKept, ZenonT(30) DEF Reaped, Exiting
<1>9. Procs!Reap(o)
  BY <1>3, <1>6, <1>7, <1>8, Zenon DEF Procs!Reap, Shown
<1> QED BY <1>9, SMTT(30)

(* Every step is one of Processes, or changes nothing there.               *)
LEMMA StepRefines ==
    ASSUME IInv, IInv', Lineage, [Next \/ Stopped]_vars
    PROVE  [Procs!Next]_(Procs!procVars)
<1>1. discipline' = discipline
  BY ZenonT(30) DEF Next, Kernel, Program, ExitMain, Stopped, vars
<1>2. CASE ~Orderly
  <2>1. ~Orderly'
    BY <1>1, <1>2, Zenon DEF Orderly
  <2> QED BY <1>2, <2>1, Zenon DEF Procs!procVars, Shown
<1>3. CASE Orderly
  <2>1. Orderly' /\ machine' \in {"up", "halted"}
    BY <1>1, <1>3, NoCrashNext, Zenon DEF Orderly
  <2>2. ASSUME NEW i \in Obj, Inner(i) PROVE UNCHANGED Procs!procVars
    <3>1. UNCHANGED <<processID, parent, machine>>
      BY <2>1, <2>2, InnerTable, Zenon
    <3>2. \A o \in Obj : Life(o)' = Life(o)
      BY <2>1, <2>2, InnerLife, Zenon
    <3> QED BY <1>3, <2>1, <3>1, <3>2, Stutters, Zenon
  <2>3. ASSUME NEW i \in Obj, ExecAlloc(i) PROVE Procs!Next
    BY <1>3, <2>1, <2>3, AllocSpawns, Zenon DEF Procs!Next
  <2>4. ASSUME NEW i \in Obj, ExitUpdate(i) PROVE Procs!Next
    BY <1>3, <2>1, <2>4, ExitExits, Zenon DEF Procs!Next
  <2>5. ASSUME NEW i \in Obj, JoinReturn(i) PROVE Procs!Next
    BY <1>3, <2>1, <2>5, JoinReaps, Zenon DEF Procs!Next
  <2>6. ASSUME NEW i \in Obj, Remove(i) PROVE Procs!Next
    BY <1>3, <2>1, <2>6, RemoveFrees, Zenon DEF Procs!Next
  <2>7. CASE ExitMain
    BY <1>3, <2>1, <2>7, ExitHalts, Zenon DEF Procs!Next
  <2>8. CASE UNCHANGED vars
    <3>1. UNCHANGED <<processID, parent, machine>> /\ \A o \in Obj : Life(o)' = Life(o)
      BY <2>8 DEF vars, Life
    <3> QED BY <1>3, <2>1, <3>1, Stutters, Zenon
  <2>9. ASSUME NEW i \in Obj, Kernel(i) \/ Program(i)
        PROVE  Inner(i) \/ ExecAlloc(i) \/ JoinReturn(i) \/ Remove(i) \/ ExitUpdate(i)
    BY <2>9, Zenon DEF Kernel, Program, Inner
  <2> QED BY <2>2, <2>3, <2>4, <2>5, <2>6, <2>7, <2>8, <2>9, Zenon DEF Next, Stopped
<1> QED BY <1>2, <1>3, SMTT(30)

(* With orderly programs the table implements the life of processes, for a *)
(* table of any size and any number of processes: entries are not given to *)
(* two processes, children are collected once, by their parent, after they *)
(* called Exit, and the machine halts after all others are collected.      *)
THEOREM Refinement == Spec => ImplementsProcesses
<1>1. Init => Procs!Init
  BY DEF Init, Procs!Init, Shown, Life
<1>2. IInv /\ IInv' /\ Lineage /\ [Next \/ Stopped]_vars => [Procs!Next]_(Procs!procVars)
  BY StepRefines, Zenon
<1>3. IInv /\ Lineage /\ [Next \/ Stopped]_vars => Lineage'
  BY NextLineage, Zenon
<1> QED BY <1>1, <1>2, <1>3, InitLineage, Invariance, PTL DEF Spec, ImplementsProcesses, Procs!Spec
=============================================================================
