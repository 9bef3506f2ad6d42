------------------------------ MODULE SemTable ------------------------------
(***************************************************************************)
(* The named semaphores of user programs: class STable, class Sem and the  *)
(* system calls CreateSemaphore, Wait and Signal.  A name is looked up in  *)
(* the table at every call; entries are never removed.  STable::Create has *)
(* no P() or V() in it, so nothing interleaves with it; a Wait may sleep   *)
(* in P().  The semaphores behave as in module Semaphores.                 *)
(***************************************************************************)
EXTENDS Integers

CONSTANTS User,          \* the user processes
          SemName,       \* the names they use
          MaxSemaphore,  \* MAX_SEMAPHORE
          Initial,       \* the initial values they ask for
          MaxSignal,     \* bound on the Signals of a name
          NoSem          \* NULL, or "in no P()"

ASSUME SemTableAssumption ==
    /\ MaxSemaphore \in Nat /\ MaxSignal \in Nat
    /\ Initial \subseteq Int
    /\ NoSem \notin SemName /\ NoSem \notin Nat

VARIABLES sem,      \* sem[i]: the name of entry i, or NoSem
          value,    \* the value of its Semaphore
          waitOn,   \* the entry whose P() a process sleeps in, or NoSem
          semResult,\* what the last system call of a process returned
          first,    \* by name: the value it was created with
          got,      \* by name: the Waits that returned 0
          given     \* by name: the Signals that returned 0

counts == <<first, got, given>>
semVars == <<sem, value, waitOn, semResult, first, got, given>>

Slot == 0 .. MaxSemaphore - 1
S == INSTANCE Semaphores
     WITH Thread <- User, Sem <- Slot, InitValue <- [i \in Slot |-> 0],
          NULL <- NoSem

(* STable::STable: an empty table.                                         *)
SemInit ==
    /\ sem = [i \in Slot |-> NoSem]
    /\ value = [i \in Slot |-> 0]
    /\ waitOn = [p \in User |-> NoSem]
    /\ semResult = [p \in User |-> 0]
    /\ first = [n \in SemName |-> 0]
    /\ got = [n \in SemName |-> 0]
    /\ given = [n \in SemName |-> 0]

(* Definitions named Wrong... are plausible mistakes in the definition that *)
(* follows them; they are used only to show that the properties below      *)
(* notice them.                                                            *)

(* The loop with strcmp: entry i is the first one of that name.  For NoSem *)
(* it is the loop of STable::FindFreeSlot.                                 *)
Found(n, i) ==
    /\ sem[i] = n
    /\ \A j \in 0 .. i - 1 : sem[j] # n
Missing(n) == \A i \in Slot : sem[i] # n

(* The process is not asleep in an earlier Wait.                           *)
Calls(p) == waitOn[p] = NoSem
SemReturns(p, r) == semResult' = [semResult EXCEPT ![p] = r]

(* STable::Create refuses: the name exists or the table is full.           *)
CreateFail(p, n) ==
    /\ Calls(p)
    /\ ~Missing(n) \/ Missing(NoSem)
    /\ SemReturns(p, -1)
    /\ UNCHANGED <<sem, value, waitOn, counts>>

(* Create without the loop that looks for the name.                        *)
WrongCreateSemaphore(p, n, init) ==
    /\ Calls(p)
    /\ \E i \in Slot :
          /\ Found(NoSem, i)
          /\ sem' = [sem EXCEPT ![i] = n]
          /\ value' = [value EXCEPT ![i] = init]
    /\ first' = [first EXCEPT ![n] = init]
    /\ SemReturns(p, 0)
    /\ UNCHANGED <<waitOn, got, given>>

(* STable::Create: new Sem(name, init) in the first free entry.  init is   *)
(* register 5 of the caller, whatever it is.                               *)
CreateSemaphore(p, n, init) ==
    /\ Calls(p)
    /\ Missing(n)
    /\ \E i \in Slot :
          /\ Found(NoSem, i)
          /\ sem' = [sem EXCEPT ![i] = n]
          /\ value' = [value EXCEPT ![i] = init]
    /\ first' = [first EXCEPT ![n] = init]
    /\ SemReturns(p, 0)
    /\ UNCHANGED <<waitOn, got, given>>

(* STable::Wait and STable::Signal of a name that is not in the table.     *)
Unknown(p, n) ==
    /\ Calls(p)
    /\ Missing(n)
    /\ SemReturns(p, -1)
    /\ UNCHANGED <<sem, value, waitOn, counts>>

(* Wait that does not ask for the value.                                   *)
WrongWait(p, n) ==
    /\ Calls(p)
    /\ \E i \in Slot :
          /\ Found(n, i)
          /\ value' = [value EXCEPT ![i] = @ - 1]
    /\ got' = [got EXCEPT ![n] = @ + 1]
    /\ SemReturns(p, 0)
    /\ UNCHANGED <<sem, waitOn, first, given>>

(* STable::Wait: P() on the entry's semaphore returns at once, because its *)
(* value is not zero, ...                                                  *)
Wait(p, n) ==
    /\ Calls(p)
    /\ \E i \in Slot :
          /\ Found(n, i)
          /\ value[i] # 0
          /\ value' = [value EXCEPT ![i] = @ - 1]
    /\ got' = [got EXCEPT ![n] = @ + 1]
    /\ SemReturns(p, 0)
    /\ UNCHANGED <<sem, waitOn, first, given>>

(* ... or sleeps ...                                                       *)
WaitSleeps(p, n) ==
    /\ \E i \in Slot : Found(n, i) /\ S!Wait(p, i)
    /\ UNCHANGED <<sem, semResult, counts>>

(* A sleeper that takes its wake-up for the unit.                          *)
WrongWaitReturns(p) ==
    /\ waitOn[p] # NoSem
    /\ value[waitOn[p]] > 0
    /\ waitOn' = [waitOn EXCEPT ![p] = NoSem]
    /\ got' = [got EXCEPT ![sem[waitOn[p]]] = @ + 1]
    /\ SemReturns(p, 0)
    /\ UNCHANGED <<sem, value, first, given>>

(* ... until the value is not zero any more.                               *)
WaitReturns(p) ==
    /\ waitOn[p] # NoSem
    /\ S!Take(p, waitOn[p])
    /\ got' = [got EXCEPT ![sem[waitOn[p]]] = @ + 1]
    /\ SemReturns(p, 0)
    /\ UNCHANGED <<sem, first, given>>

(* STable::Signal: V() on the entry's semaphore.                           *)
Signal(p, n) ==
    /\ Calls(p)
    /\ given[n] < MaxSignal
    /\ \E i \in Slot : Found(n, i) /\ S!Release(i)
    /\ given' = [given EXCEPT ![n] = @ + 1]
    /\ SemReturns(p, 0)
    /\ UNCHANGED <<sem, first, got>>

SemNext ==
    \E p \in User :
        \/ WaitReturns(p)
        \/ \E n \in SemName :
              \/ CreateFail(p, n) \/ Unknown(p, n)
              \/ Wait(p, n) \/ WaitSleeps(p, n) \/ Signal(p, n)
              \/ \E init \in Initial : CreateSemaphore(p, n, init)

SemSpec == SemInit /\ [][SemNext]_semVars
-----------------------------------------------------------------------------
(* Types; a process sleeps only in a semaphore that exists.                *)
SemTypeOK ==
    /\ sem \in [Slot -> SemName \cup {NoSem}]
    /\ value \in [Slot -> Int]
    /\ waitOn \in [User -> Slot \cup {NoSem}]
    /\ \A p \in User : waitOn[p] # NoSem => sem[waitOn[p]] # NoSem
    /\ semResult \in [User -> {0, -1}]
    /\ first \in [SemName -> Int]
    /\ got \in [SemName -> Nat] /\ given \in [SemName -> Nat]

(* Programs that use the same name use the same semaphore, so that their   *)
(* Waits and Signals meet: no name is in the table twice (STable::Create). *)
OneEntryPerName ==
    \A i, j \in Slot : sem[i] = sem[j] /\ sem[i] # NoSem => i = j

(* The value of a semaphore is the one it was created with, plus the       *)
(* Signals and minus the Waits that programs made under its name.          *)
UnitsConserved ==
    \A i \in Slot : sem[i] # NoSem =>
        value[i] = first[sem[i]] + given[sem[i]] - got[sem[i]]

(* No more Waits on a name succeed than there were units created and       *)
(* signalled under it, and none at all before the name was created.        *)
WaitsAreCovered ==
    \A n \in SemName : /\ got[n] <= first[n] + given[n]
                       /\ Missing(n) => got[n] = 0 /\ given[n] = 0
=============================================================================
