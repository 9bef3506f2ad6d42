----------------------------- MODULE Processes ------------------------------
(***************************************************************************)
(* What the system calls Exec, Join and Exit promise (userprog/syscall.h   *)
(* and the comments of PTable): a parent starts children, a child ends     *)
(* once, its parent and nobody else collects it after that, and its entry  *)
(* of the process table can be used again only then.  The main process     *)
(* stops the machine when all its descendants have been collected.         *)
(***************************************************************************)
CONSTANTS Proc,    \* all the processes there will ever be
          Root,    \* the main process
          Slot,    \* the entries of the process table
          NULL

VARIABLES state,   \* "absent", "running", "exited", "reaped" or "freed"
          parent,  \* parent[c]: the process that started c
          slot,    \* slot[c]: the entry c was given
          halted

procVars == <<state, parent, slot, halted>>

Init ==
    /\ state = [p \in Proc |-> IF p = Root THEN "running" ELSE "absent"]
    /\ parent = [p \in Proc |-> NULL]
    /\ slot = [p \in Proc |-> IF p = Root THEN 0 ELSE NULL]
    /\ halted = FALSE

(* Exec: p starts c in an entry no process occupies.                       *)
Spawn(p, c, n) ==
    /\ state[p] = "running" /\ state[c] = "absent"
    /\ \A q \in Proc : slot[q] = n => state[q] = "freed"
    /\ state' = [state EXCEPT ![c] = "running"]
    /\ parent' = [parent EXCEPT ![c] = p]
    /\ slot' = [slot EXCEPT ![c] = n]
    /\ UNCHANGED halted

(* Exit of a process other than the main one.                              *)
Exit(c) ==
    /\ c # Root /\ state[c] = "running"
    /\ state' = [state EXCEPT ![c] = "exited"]
    /\ UNCHANGED <<parent, slot, halted>>

(* Join: the parent, still running, collects a child that has ended.       *)
Reap(c) ==
    /\ state[c] = "exited"
    /\ state[parent[c]] = "running"
    /\ state' = [state EXCEPT ![c] = "reaped"]
    /\ UNCHANGED <<parent, slot, halted>>

(* The entry of a collected child becomes free.                            *)
Free(c) ==
    /\ state[c] = "reaped"
    /\ state' = [state EXCEPT ![c] = "freed"]
    /\ UNCHANGED <<parent, slot, halted>>

(* Exit of the main process.                                               *)
Halt ==
    /\ \A p \in Proc \ {Root} : state[p] \notin {"running", "exited"}
    /\ halted' = TRUE
    /\ UNCHANGED <<state, parent, slot>>

Next ==
    \/ \E p, c \in Proc : \E n \in Slot : Spawn(p, c, n)
    \/ \E c \in Proc : Exit(c) \/ Reap(c) \/ Free(c)
    \/ Halt

Spec == Init /\ [][Next]_procVars
=============================================================================
