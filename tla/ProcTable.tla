----------------------------- MODULE ProcTable ------------------------------
(***************************************************************************)
(* The process table (class PTable) and the process control blocks (class  *)
(* PCB) behind the system calls Exec, ExecV, Join and Exit.                *)
(*                                                                         *)
(* Every process has one kernel thread, so it is named by its PCB object.  *)
(* Kernel code loses the processor only at the end of P(), V() and Fork()  *)
(* (where interrupts are enabled again) or by sleeping inside P().  Each   *)
(* action is therefore the code from one such point to the next one, with  *)
(* the P(), V() or Fork() that ends it.  Semaphores behave as in module    *)
(* Semaphores.  pc[i] is the point a process has reached; entries of       *)
(* pcb[] are read again after each point, as the code does.                *)
(*                                                                         *)
(* numwait is written and never read, so only the mutex around it is kept. *)
(***************************************************************************)
EXTENDS Integers

CONSTANTS MaxProcess,  \* MAX_PROCESS
          MaxObj,      \* bound on the PCB objects ever made
          Code,        \* the exit codes programs use
          Discipline,  \* how programs may behave: "orderly", "once" or "any"
          Junk,        \* the content of an uninitialised field
          NULL

ASSUME ProcTableAssumption ==
    /\ MaxProcess \in Nat \ {0} /\ MaxObj \in Nat \ {0}
    /\ Discipline \subseteq {"orderly", "once", "any"}
    /\ Junk \notin Code /\ NULL \notin Nat

Slot == 0 .. MaxProcess - 1
Obj == 0 .. MaxObj - 1
Main == 0

VARIABLES pcb,        \* PTable::pcb
          bmsem,      \* PTable::bmsem
          made,       \* the number of PCB objects made
          alive,      \* the PCB objects not deleted
          processID,  \* PCB::processID, equal to Thread::processID
          parentID,   \* PCB::parentID
          exitcode,   \* PCB::exitcode
          sem,        \* PCB::joinsem, exitsem, mutex
          pc,         \* where the process is
          id,         \* the argument of its Join, or the slot of its Exec
          ref,        \* the PCB object whose method it is in
          parent,     \* the process that really made this one
          kids,       \* the children it knows from Exec and has not joined
          machine,    \* "up", "halted", or how the kernel crashed
          discipline  \* how the programs of this run behave

table == <<pcb, bmsem, made, alive, processID, parentID, exitcode, parent>>
locals == <<id, ref>>
vars == <<pcb, bmsem, made, alive, processID, parentID, exitcode, sem, pc,
          id, ref, parent, kids, machine, discipline>>

(* Orderly programs Join their children only, each once, and Exit when     *)
(* they have joined all of them.  With "once" they may Exit before.        *)
Orderly == discipline = "orderly"

PC == {"none", "new", "start1", "start2", "user",
       "exec1", "execv1", "exec2", "execv2", "exec3", "exec4",
       "join1", "join2", "join3", "join4", "join5",
       "exit1", "exit2", "exit3", "exit4", "exit5", "gone"}

(* Definitions named Wrong... are plausible mistakes in the definition that *)
(* follows them; they are used only to show that the properties below      *)
(* notice them.                                                            *)

(* The three semaphores PCB::PCB creates.                                  *)
NewSems == [join |-> 0, exit |-> 0, mutex |-> 1]

(* PTable::PTable, run before the first user program starts.               *)
Init ==
    /\ pcb = [n \in Slot |-> IF n = 0 THEN Main ELSE NULL]
    /\ bmsem = 1
    /\ made = 1
    /\ alive = {Main}
    /\ processID = [o \in Obj |-> IF o = Main THEN 0 ELSE NULL]
    /\ parentID = [o \in Obj |-> IF o = Main THEN -1 ELSE NULL]
    /\ exitcode = [o \in Obj |-> Junk]
    /\ sem = [o \in Obj |-> NewSems]
    /\ pc = [o \in Obj |-> IF o = Main THEN "user" ELSE "none"]
    /\ id = [o \in Obj |-> NULL]
    /\ ref = [o \in Obj |-> NULL]
    /\ parent = [o \in Obj |-> NULL]
    /\ kids = [o \in Obj |-> {}]
    /\ machine = "up"
    /\ discipline \in Discipline

(* Process i is at one of the points where.                                *)
At(i, where) == machine = "up" /\ pc[i] \in where

Go(i, to) == pc' = [pc EXCEPT ![i] = to]

(* Process i gets through P() on semaphore f of the object o.              *)
Take(i, o, f, after) ==
    /\ sem[o][f] > 0
    /\ sem' = [sem EXCEPT ![o][f] = @ - 1]
    /\ Go(i, after)

(* It calls P(): it goes on to the point after, or sleeps at waiting.      *)
P(i, o, f, waiting, after) ==
    \/ Take(i, o, f, after)
    \/ /\ sem[o][f] = 0
       /\ UNCHANGED sem
       /\ Go(i, waiting)

V(o, f) == sem' = [sem EXCEPT ![o][f] = @ + 1]

(* The table entry of process i's own id: kernel->currentThread->processID *)
Own(i) == pcb[processID[i]]

(* What happens when the code follows the pointer o.  Where an action uses *)
(* a pointer without asking, PointersValid shows that it may.              *)
Valid(o) == o # NULL /\ o \in alive
Crash(o) ==
    /\ ~Valid(o)
    /\ machine' = IF o = NULL THEN "null_pointer" ELSE "freed_pcb"
    /\ UNCHANGED <<table, sem, pc, locals, kids>>
-----------------------------------------------------------------------------
(* Exec and ExecV: bmsem->P().  The bound MaxObj is tested here.           *)
ExecUpdate(i) ==
    /\ At(i, {"user"}) /\ made < MaxObj
    /\ bmsem > 0
    /\ bmsem' = bmsem - 1
    /\ Go(i, "exec1") \/ Go(i, "execv1")
    /\ UNCHANGED <<pcb, made, alive, processID, parentID, exitcode, parent,
                   sem, locals, kids, machine>>

(* PTable::GetFreeSlot returns n: the first free entry, or -1.             *)
GetFreeSlot(n) ==
    \/ /\ n \in Slot /\ pcb[n] = NULL
       /\ \A m \in Slot : pcb[m] = NULL => n <= m
    \/ n = -1 /\ \A m \in Slot : pcb[m] # NULL

(* bmsem->V() and return -1: the name is NULL or the caller's own (tested  *)
(* by ExecUpdate, not by ExecV), or there is no free entry.                *)
ExecFail(i) ==
    /\ At(i, {"exec1", "execv1"})
    /\ pc[i] = "execv1" => GetFreeSlot(-1)
    /\ bmsem' = bmsem + 1
    /\ Go(i, "user")
    /\ UNCHANGED <<pcb, made, alive, processID, parentID, exitcode, parent,
                   sem, locals, kids, machine>>

(* A PCB is made in the free entry and its mutex, just created, taken.     *)
ExecAlloc(i) ==
    /\ At(i, {"exec1", "execv1"})
    /\ \E n \in Slot :
          /\ GetFreeSlot(n)
          /\ pcb' = [pcb EXCEPT ![n] = made]
          /\ alive' = alive \cup {made}
          /\ processID' = [processID EXCEPT ![made] = n]
          /\ parentID' = [parentID EXCEPT ![made] = processID[i]]
          /\ sem' = [sem EXCEPT ![made] = [NewSems EXCEPT !.mutex = 0]]
          /\ pc' = [pc EXCEPT ![made] = "new",
                      ![i] = IF @ = "exec1" THEN "exec2" ELSE "execv2"]
          /\ ref' = [ref EXCEPT ![i] = made]
          /\ id' = [id EXCEPT ![i] = n]
          /\ parent' = [parent EXCEPT ![made] = i]
    /\ made' = made + 1
    /\ UNCHANGED <<bmsem, exitcode, kids, machine>>

(* PCB::Exec: new Thread and Fork(StartProcess_1).                         *)
Exec(i) ==
    /\ At(i, {"exec2"})
    /\ pc' = [pc EXCEPT ![i] = "exec3", ![ref[i]] = "start1"]
    /\ UNCHANGED <<table, sem, locals, kids, machine>>

(* PCB::ExecV: new Thread and Fork(StartProcess_2).                        *)
ExecV(i) ==
    /\ At(i, {"execv2"})
    /\ pc' = [pc EXCEPT ![i] = "exec3", ![ref[i]] = "start2"]
    /\ UNCHANGED <<table, sem, locals, kids, machine>>

(* The end of PCB::Exec and PCB::ExecV: mutex->V().                        *)
ExecUnlock(i) ==
    /\ At(i, {"exec3"})
    /\ \/ /\ Valid(ref[i])
          /\ V(ref[i], "mutex")
          /\ Go(i, "exec4")
          /\ UNCHANGED <<table, locals, kids, machine>>
       \/ Crash(ref[i])

(* return this->processID; bmsem->V(); the program gets the child's id.    *)
ExecReturn(i) ==
    /\ At(i, {"exec4"})
    /\ \/ /\ Valid(ref[i])
          /\ bmsem' = bmsem + 1
          /\ kids' = [kids EXCEPT ![i] = @ \cup {ref[i]}]
          /\ Go(i, "user")
          /\ UNCHANGED <<pcb, made, alive, processID, parentID, exitcode,
                         parent, sem, locals, machine>>
       \/ Crash(ref[i])

(* StartProcess_1 finds its file name through the table, loads the program *)
(* and jumps to it.                                                        *)
StartProcess_1(i) ==
    /\ At(i, {"start1"})
    /\ Go(i, "user")
    /\ UNCHANGED <<table, sem, locals, kids, machine>>

(* StartProcess_2 has the file name in its argument vector.                *)
StartProcess_2(i) ==
    /\ At(i, {"start2"})
    /\ Go(i, "user")
    /\ UNCHANGED <<table, sem, locals, kids, machine>>
-----------------------------------------------------------------------------
(* The ids a program passes to Join: any, or only those of children it has *)
(* not joined.                                                             *)
JoinArg(i) == IF discipline = "any" THEN -1 .. MaxProcess
              ELSE {processID[k] : k \in kids[i]}

(* The test at the start of PTable::JoinUpdate.                            *)
MayJoin(i, n) ==
    /\ n \in Slot
    /\ pcb[n] # NULL
    /\ parentID[pcb[n]] = processID[i]

(* PTable::JoinUpdate up to the P() of IncNumWait, on the caller's own     *)
(* mutex.  An id that is refused returns -1 and changes nothing.           *)
JoinUpdate(i) ==
    /\ At(i, {"user"})
    /\ \E n \in JoinArg(i) :
          /\ MayJoin(i, n)
          /\ LET o == pcb[parentID[pcb[n]]] IN
             /\ id' = [id EXCEPT ![i] = n]
             /\ ref' = [ref EXCEPT ![i] = o]
             /\ P(i, o, "mutex", "join1", "join2")
    /\ UNCHANGED <<table, kids, machine>>

(* A sleeper in the P() of IncNumWait goes on.                             *)
JoinMutex(i) ==
    /\ At(i, {"join1"})
    /\ Take(i, ref[i], "mutex", "join2")
    /\ UNCHANGED <<table, locals, kids, machine>>

(* The V() of IncNumWait.                                                  *)
IncNumWait(i) ==
    /\ At(i, {"join2"})
    /\ V(ref[i], "mutex")
    /\ Go(i, "join3")
    /\ UNCHANGED <<table, locals, kids, machine>>

(* Join that waits, without a semaphore, for the child to leave the table. *)
WrongJoinWaitPolls(i) ==
    /\ At(i, {"join3"})
    /\ pcb[id[i]] # NULL
    /\ UNCHANGED vars

(* Join that does not wait for the child.                                  *)
WrongJoinWaitNoP(i) ==
    /\ At(i, {"join3"})
    /\ ref' = [ref EXCEPT ![i] = pcb[id[i]]]
    /\ Go(i, "join5")
    /\ UNCHANGED <<table, sem, id, kids, machine>>

(* pcb[id]->JoinWait().                                                    *)
JoinWait(i) ==
    /\ At(i, {"join3"})
    /\ LET o == pcb[id[i]] IN
       \/ /\ Valid(o)
          /\ ref' = [ref EXCEPT ![i] = o]
          /\ P(i, o, "join", "join4", "join5")
          /\ UNCHANGED <<table, id, kids, machine>>
       \/ Crash(o)

(* A sleeper in JoinWait goes on; a deleted semaphore wakes nobody.        *)
JoinWoken(i) ==
    /\ At(i, {"join4"})
    /\ Valid(ref[i])
    /\ Take(i, ref[i], "join", "join5")
    /\ UNCHANGED <<table, locals, kids, machine>>

(* GetExitCode and ExitRelease on pcb[id], and the return to the program.  *)
JoinReturn(i) ==
    /\ At(i, {"join5"})
    /\ V(pcb[id[i]], "exit")
    /\ kids' = [kids EXCEPT ![i] = @ \ {pcb[id[i]]}]
    /\ Go(i, "user")
    /\ UNCHANGED <<table, locals, machine>>
-----------------------------------------------------------------------------
(* ExitUpdate that halts the machine for every process.                    *)
WrongExitMain ==
    /\ \E i \in Obj : At(i, {"user"}) /\ (Orderly => kids[i] = {})
    /\ machine' = "halted"
    /\ UNCHANGED <<table, sem, pc, locals, kids, discipline>>

(* PTable::ExitUpdate called by the main process: FreeSpace and Halt.      *)
ExitMain ==
    /\ At(Main, {"user"})
    /\ Orderly => kids[Main] = {}
    /\ machine' = "halted"
    /\ UNCHANGED <<table, sem, pc, locals, kids, discipline>>

(* PTable::ExitUpdate up to the P() of DecNumWait, on the parent's mutex.  *)
ExitUpdate(i) ==
    /\ i # Main /\ At(i, {"user"})
    /\ Orderly => kids[i] = {}
    /\ LET o == pcb[parentID[Own(i)]] IN
       \/ /\ Valid(o)
          /\ \E c \in Code :
                exitcode' = [exitcode EXCEPT ![Own(i)] = c]
          /\ ref' = [ref EXCEPT ![i] = o]
          /\ P(i, o, "mutex", "exit1", "exit2")
          /\ UNCHANGED <<pcb, bmsem, made, alive, processID, parentID,
                         parent, id, kids, machine>>
       \/ Crash(o)

(* A sleeper in the P() of DecNumWait goes on.                             *)
ExitMutex(i) ==
    /\ At(i, {"exit1"})
    /\ Valid(ref[i])
    /\ Take(i, ref[i], "mutex", "exit2")
    /\ UNCHANGED <<table, locals, kids, machine>>

(* The V() of DecNumWait, on the same object.                              *)
DecNumWait(i) ==
    /\ At(i, {"exit2"})
    /\ \/ /\ Valid(ref[i])
          /\ V(ref[i], "mutex")
          /\ Go(i, "exit3")
          /\ UNCHANGED <<table, locals, kids, machine>>
       \/ Crash(ref[i])

(* pcb[id]->JoinRelease().                                                 *)
JoinRelease(i) ==
    /\ At(i, {"exit3"})
    /\ V(Own(i), "join")
    /\ Go(i, "exit4")
    /\ UNCHANGED <<table, locals, kids, machine>>

(* Exit that does not ask the parent for permission to end.                *)
WrongExitWaitNoP(i) ==
    /\ At(i, {"exit4"})
    /\ Go(i, "exit5")
    /\ UNCHANGED <<table, sem, locals, kids, machine>>

(* pcb[id]->ExitWait(): sleeps until the parent has read the exit code.    *)
ExitWait(i) ==
    /\ At(i, {"exit4"})
    /\ Take(i, Own(i), "exit", "exit5")
    /\ UNCHANGED <<table, locals, kids, machine>>

(* PTable::Remove and ~PCB: the entry is freed, the semaphores deleted,    *)
(* the address space freed, and the thread finishes.                       *)
Remove(i) ==
    /\ At(i, {"exit5"})
    /\ pcb' = [pcb EXCEPT ![processID[i]] = NULL]
    /\ alive' = alive \ {Own(i)}
    /\ Go(i, "gone")
    /\ UNCHANGED <<bmsem, made, processID, parentID, exitcode, parent,
                   sem, locals, kids, machine>>
-----------------------------------------------------------------------------
(* What the kernel does by itself once a program is in a system call.      *)
Kernel(i) ==
    /\ UNCHANGED discipline
    /\ \/ ExecFail(i) \/ ExecAlloc(i) \/ Exec(i) \/ ExecV(i) \/ ExecUnlock(i)
       \/ ExecReturn(i) \/ StartProcess_1(i) \/ StartProcess_2(i)
       \/ JoinMutex(i) \/ IncNumWait(i) \/ JoinWait(i) \/ JoinWoken(i)
       \/ JoinReturn(i)
       \/ ExitMutex(i) \/ DecNumWait(i) \/ JoinRelease(i) \/ ExitWait(i)
       \/ Remove(i)

(* What programs decide to do.                                             *)
Program(i) ==
    /\ UNCHANGED discipline
    /\ ExecUpdate(i) \/ JoinUpdate(i) \/ ExitUpdate(i)

Next == ExitMain \/ \E i \in Obj : Kernel(i) \/ Program(i)

(* Nothing happens any more once the machine is halted or has crashed.     *)
Stopped == machine # "up" /\ UNCHANGED vars

Spec == Init /\ [][Next \/ Stopped]_vars

(* The scheduler gives every ready thread the processor (ReadyThreadRuns   *)
(* of module Threads), so a process that can go on in the kernel does.     *)
FairSpec == Spec /\ \A i \in Obj : WF_vars(Kernel(i))
-----------------------------------------------------------------------------
(* Types; every semaphore of a PCB is used as a binary one.                *)
TypeOK ==
    /\ pcb \in [Slot -> Obj \cup {NULL}]
    /\ bmsem \in 0..1
    /\ made \in 1..MaxObj
    /\ alive \subseteq 0 .. made - 1
    /\ processID \in [Obj -> Slot \cup {NULL}]
    /\ parentID \in [Obj -> Slot \cup {-1, NULL}]
    /\ exitcode \in [Obj -> Code \cup {Junk}]
    /\ sem \in [Obj -> [join : 0..1, exit : 0..1, mutex : 0..1]]
    /\ pc \in [Obj -> PC]
    /\ id \in [Obj -> Slot \cup {NULL}]
    /\ ref \in [Obj -> Obj \cup {NULL}]
    /\ parent \in [Obj -> Obj \cup {NULL}]
    /\ kids \in [Obj -> SUBSET Obj]
    /\ machine \in {"up", "halted", "null_pointer", "freed_pcb"}
    /\ discipline \in Discipline

(* The kernel follows no null pointer and touches no deleted PCB: pcb[] is *)
(* read again after every P() and V(), and what was tested before may be   *)
(* gone (JoinUpdate, ExitUpdate, DecNumWait).                              *)
NoCrash == machine \in {"up", "halted"}

(* The abstract life of a process: exited once Exit has stored the code,   *)
(* reaped once its parent let it go.                                       *)
Life(o) ==
    CASE pc[o] = "none" -> "absent"
      [] pc[o] = "gone" -> "freed"
      [] pc[o] = "exit5" \/ (pc[o] = "exit4" /\ sem[o].exit > 0) -> "reaped"
      [] pc[o] \in {"exit1", "exit2", "exit3"} -> "exited"
      [] pc[o] = "exit4" /\ sem[o].exit = 0 -> "exited"
      [] OTHER -> "running"

(* A process keeps its own entry from Exec to Remove, and parentID, a mere *)
(* index, names the process that made it until that one has collected it,  *)
(* although entries are reused.  (Between ExitRelease and Remove a child   *)
(* may outlive its parent.)                                                *)
ParentIsThere ==
    Orderly => \A o \in alive :
        /\ Own(o) = o
        /\ o # Main /\ Life(o) # "reaped" =>
              parent[o] \in alive /\ pcb[parentID[o]] = parent[o]

(* When Join reads the exit code, pcb[id] is still the child that the      *)
(* program started and has not joined, that child has called Exit and      *)
(* stored its code, and it cannot go away before Join is done with it.     *)
JoinFindsExit ==
    \A i \in Obj : Orderly /\ pc[i] = "join5" =>
        LET o == pcb[id[i]] IN
        /\ o \in kids[i] /\ parent[o] = i
        /\ exitcode[o] # Junk
        /\ pc[o] = "exit4" /\ sem[o].exit = 0

(* Whatever programs do with Join and Exit, a process has its own entry,   *)
(* the PCB that Exec is making is not deleted before its thread exists,    *)
(* IncNumWait works on the caller's own PCB, and the child whose joinsem a *)
(* Join got through stays in its entry until that Join has read its code.  *)
PointersValid ==
    \A i \in alive :
        /\ Own(i) = i
        /\ pc[i] \in {"exec2", "execv2"} => Valid(ref[i]) /\ pc[ref[i]] = "new"
        /\ pc[i] \in {"join1", "join2"} => ref[i] = i
        /\ pc[i] = "join5" => pcb[id[i]] = ref[i] /\ Valid(ref[i])

(* "Assume no one is still waiting on the semaphore!" (~Semaphore in       *)
(* threads/synch.cc): nobody sleeps in, or is inside, a method of a PCB    *)
(* that ~PCB has deleted.                                                  *)
DeletedUnused ==
    Orderly => \A i \in alive : pc[i] \in {"join4", "exit1", "exit2"} => Valid(ref[i])

(* The pointers that the kernel keeps over a P() or V() stay good: for all *)
(* programs those of PointersValid, for orderly ones all of them, and what *)
(* Join reads through them is the exit code of the child.                  *)
NoStalePointer ==
    /\ TypeOK /\ PointersValid
    /\ Orderly => NoCrash
    /\ ParentIsThere /\ DeletedUnused /\ JoinFindsExit

(* The table implements processes when programs are orderly: children are  *)
(* collected once, by their parent, after they ended; no entry is given to *)
(* two of them; the main process halts the machine after all others.  What *)
(* other programs do is shown as if nothing happened.                      *)
Shown(now, first) == IF Orderly THEN now ELSE first
Procs == INSTANCE Processes
         WITH Proc <- Obj, Root <- Main,
              state <- [o \in Obj |->
                          Shown(Life(o), IF o = Main THEN "running" ELSE "absent")],
              slot <- [o \in Obj |->
                          Shown(processID[o], IF o = Main THEN 0 ELSE NULL)],
              parent <- [o \in Obj |-> Shown(parent[o], NULL)],
              halted <- Orderly /\ machine = "halted"
ImplementsProcesses == Procs!Spec

(* Once the child has called Exit and the parent Join, the parent gets its *)
(* exit code: no wake-up between JoinRelease and JoinWait is lost.         *)
JoinReturns ==
    \A i \in Obj :
        /\ Orderly /\ pc[i] \in {"join1", "join2", "join3", "join4", "join5"}
        /\ \E o \in kids[i] : processID[o] = id[i] /\ Life(o) = "exited"
        ~> pc[i] = "user"

(* A joined child gives its entry back, unless the machine stops first.    *)
EntryFreed ==
    \A o \in Obj : Life(o) = "reaped" ~> pc[o] = "gone" \/ machine # "up"

(* Join and Exit come to their ends, in whichever order they are called.   *)
JoinsEnd == JoinReturns /\ EntryFreed
=============================================================================
