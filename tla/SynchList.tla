----------------------------- MODULE SynchList ------------------------------
(***************************************************************************)
(* Class SynchList and the monitor it is built from, class Lock and class  *)
(* Condition.  The semaphores inside them behave as in module Semaphores;  *)
(* a thread may lose the processor at the end of every P() and V(), so an  *)
(* action is the code up to and including the next V(), or the P() that a  *)
(* thread gets through.  A point named ...P is: at, or asleep in, a P().   *)
(*                                                                         *)
(* A waiter of the condition is the semaphore that Condition::Wait makes;  *)
(* as a thread has at most one, it is named by its thread.                 *)
(***************************************************************************)
EXTENDS Naturals, Sequences, FiniteSets, Queues

CONSTANTS Thread,
          MaxItems,   \* bound on the items ever appended
          NULL

ASSUME SynchListAssumption ==
    IsFiniteSet(Thread) /\ MaxItems \in Nat /\ NULL \notin Thread

VARIABLES list,        \* SynchList::list
          sent,        \* the number of items appended; they are 1, 2, ...
          item,        \* what RemoveFront of a thread returned last
          lock,        \* the value of lock->semaphore
          lockHolder,  \* Lock::lockHolder
          waitQueue,   \* Condition::waitQueue
          waiter,      \* the value of a thread's waiter, or NoWaiter
          pc           \* where a thread is

data == <<list, sent, item>>
vars == <<list, sent, item, lock, lockHolder, waitQueue, waiter, pc>>

NoWaiter == 2

PC == {"idle", "AppendP", "Append", "Release", "RemoveP", "Remove",
       "WaitP", "AcquireP", "ApplyP", "Apply"}

(* Definitions named Wrong... are plausible mistakes in the definition that *)
(* follows them; they are used only to show that the properties below      *)
(* notice them.                                                            *)

(* Lock::Lock: new Semaphore("lock", 1).                                   *)
NewLock == 1

Init ==
    /\ list = << >> /\ sent = 0 /\ item = [t \in Thread |-> 0]
    /\ lock = NewLock
    /\ lockHolder = NULL
    /\ waitQueue = << >>
    /\ waiter = [t \in Thread |-> NoWaiter]
    /\ pc = [t \in Thread |-> "idle"]

Go(t, to) == pc' = [pc EXCEPT ![t] = to]

(* Lock::Release, called by its holder.                                    *)
Release == lockHolder' = NULL /\ lock' = lock + 1

(* A thread calls Append (within the bound), RemoveFront or Apply.         *)
Call(t) ==
    /\ pc[t] = "idle"
    /\ \/ /\ sent + Cardinality({u \in Thread : pc[u] \in {"AppendP", "Append"}})
                < MaxItems
          /\ Go(t, "AppendP")
       \/ Go(t, "RemoveP")
       \/ Go(t, "ApplyP")
    /\ UNCHANGED <<data, lock, lockHolder, waitQueue, waiter>>

(* The P() of Lock::Acquire returns.  The holder is noted at the start of  *)
(* the next step: the thread may lose the processor in between.            *)
AcquireP(t) ==
    /\ pc[t] \in {"AppendP", "RemoveP", "ApplyP", "AcquireP"}
    /\ lock > 0
    /\ lock' = lock - 1
    /\ Go(t, CASE pc[t] = "AppendP" -> "Append" [] pc[t] = "ApplyP" -> "Apply"
               [] OTHER -> "Remove")
    /\ UNCHANGED <<data, lockHolder, waitQueue, waiter>>

(* list->Append(item).                                                     *)
Put == sent' = sent + 1 /\ list' = Append(list, sent + 1)

(* SynchList::Append with somebody waiting, up to the V() of Signal.       *)
AppendSignal(t) ==
    /\ pc[t] = "Append"
    /\ waitQueue # << >>
    /\ Put
    /\ lockHolder' = t
    /\ waiter' = [waiter EXCEPT ![Head(waitQueue)] = @ + 1]
    /\ waitQueue' = Tail(waitQueue)
    /\ Go(t, "Release")
    /\ UNCHANGED <<item, lock>>

(* Append that does not call Signal.                                       *)
WrongAppendRelease(t) ==
    /\ pc[t] = "Append"
    /\ Put
    /\ Release
    /\ Go(t, "idle")
    /\ UNCHANGED <<item, waitQueue, waiter>>

(* SynchList::Append with nobody waiting, up to the V() of Release.        *)
AppendRelease(t) ==
    /\ pc[t] = "Append"
    /\ waitQueue = << >>
    /\ Put
    /\ Release
    /\ Go(t, "idle")
    /\ UNCHANGED <<item, waitQueue, waiter>>

(* The Release of an Append that signalled.                                *)
AppendEnds(t) ==
    /\ pc[t] = "Release"
    /\ Release
    /\ Go(t, "idle")
    /\ UNCHANGED <<data, waitQueue, waiter>>

(* SynchList::RemoveFront with "if" for "while": a woken thread finds the  *)
(* list as it is, and an empty list gives it nothing.                      *)
WrongTake(t) ==
    /\ pc[t] = "Remove"
    /\ list # << >> \/ waiter[t] # NoWaiter
    /\ item' = [item EXCEPT ![t] = IF list = << >> THEN 0 ELSE Head(list)]
    /\ list' = IF list = << >> THEN list ELSE Tail(list)
    /\ Release
    /\ waiter' = [waiter EXCEPT ![t] = NoWaiter]
    /\ Go(t, "idle")
    /\ UNCHANGED <<sent, waitQueue>>

(* SynchList::RemoveFront with the lock and an item in the list; a thread  *)
(* that comes from Condition::Wait deletes its waiter.                     *)
Take(t) ==
    /\ pc[t] = "Remove"
    /\ list # << >>
    /\ item' = [item EXCEPT ![t] = Head(list)]
    /\ list' = Tail(list)
    /\ Release
    /\ waiter' = [waiter EXCEPT ![t] = NoWaiter]
    /\ Go(t, "idle")
    /\ UNCHANGED <<sent, waitQueue>>

(* Condition::Wait that keeps the lock.                                    *)
WrongWait(t) ==
    /\ pc[t] = "Remove"
    /\ list = << >>
    /\ waiter' = [waiter EXCEPT ![t] = 0]
    /\ waitQueue' = Append(waitQueue, t)
    /\ lockHolder' = t
    /\ Go(t, "WaitP")
    /\ UNCHANGED <<data, lock>>

(* The list is empty: Condition::Wait makes a waiter (after a wait in vain *)
(* the old one is deleted) and releases the lock.                          *)
Wait(t) ==
    /\ pc[t] = "Remove"
    /\ list = << >>
    /\ waiter' = [waiter EXCEPT ![t] = 0]
    /\ waitQueue' = Append(waitQueue, t)
    /\ Release
    /\ Go(t, "WaitP")
    /\ UNCHANGED data

(* waiter->P() returns; the lock has to be acquired again.                 *)
WaitP(t) ==
    /\ pc[t] = "WaitP"
    /\ waiter[t] = 1
    /\ waiter' = [waiter EXCEPT ![t] = 0]
    /\ Go(t, "AcquireP")
    /\ UNCHANGED <<data, lock, lockHolder, waitQueue>>

(* SynchList::Apply with the lock.                                         *)
ApplyAll(t) ==
    /\ pc[t] = "Apply"
    /\ Release
    /\ Go(t, "idle")
    /\ UNCHANGED <<data, waitQueue, waiter>>

Step(t) ==
    \/ AcquireP(t) \/ AppendSignal(t) \/ AppendRelease(t) \/ AppendEnds(t)
    \/ Take(t) \/ Wait(t) \/ WaitP(t) \/ ApplyAll(t)

Next == \E t \in Thread : Call(t) \/ Step(t)

Spec == Init /\ [][Next]_vars

(* A thread that can go on inside a call does: ReadyThreadRuns of module   *)
(* Threads.                                                                *)
FairSpec == Spec /\ \A t \in Thread : WF_vars(Step(t))
-----------------------------------------------------------------------------
(* Types.                                                                  *)
TypeOK ==
    /\ list \in Seq(Nat) /\ sent \in Nat
    /\ item \in [Thread -> Nat]
    /\ lock \in 0..1
    /\ lockHolder \in Thread \cup {NULL}
    /\ waitQueue \in Seq(Thread)
    /\ waiter \in [Thread -> {0, 1, NoWaiter}]
    /\ pc \in [Thread -> PC]

(* The threads between the P() of Acquire and the V() of Release.          *)
Inside == {t \in Thread : pc[t] \in {"Append", "Release", "Remove", "Apply"}}

(* One thread at a time touches the list and the wait queue, the lock is   *)
(* free when there is none, and the ASSERTs of Release, Wait and Signal    *)
(* hold: lockHolder never names a thread that is outside.                  *)
MutualExclusion ==
    /\ TypeOK
    /\ Cardinality(Inside) + lock = 1
    /\ lockHolder # NULL => Inside = {lockHolder}
    /\ \A t \in Inside : pc[t] = "Release" => lockHolder = t

(* Condition::Signal never V's a deleted waiter and never the same one     *)
(* twice: the wait queue names exactly the threads that wait and have not  *)
(* been signalled, each once.                                              *)
WaitersLive ==
    /\ Elems(waitQueue) = {t \in Thread : pc[t] = "WaitP" /\ waiter[t] = 0}
    /\ NoDuplicates(waitQueue)

(* Threads that were signalled and have not looked at the list again.      *)
Signalled ==
    {t \in Thread : \/ pc[t] = "WaitP" /\ waiter[t] = 1
                    \/ pc[t] = "AcquireP"
                    \/ pc[t] = "Remove" /\ waiter[t] = 0}

(* No signal is lost, although a third thread may take the item before the *)
(* woken one has the lock again: while threads wait for the list to fill,  *)
(* there are as many signalled threads as items.  And no signal goes to a  *)
(* thread that does not wait.                                              *)
NoLostSignal ==
    /\ WaitersLive
    /\ waitQueue # << >> => Len(list) <= Cardinality(Signalled)

(* The list hands out every item once, in order, and only to threads that  *)
(* found one.                                                              *)
Chan == INSTANCE Channel
ImplementsChannel == Chan!Spec

(* Items do not stay on the list while somebody waits for one, unless new  *)
(* calls take the lock for ever: a semaphore does not promise that a woken *)
(* thread gets the unit.                                                   *)
ItemsAreTaken ==
    \/ []<><<\E t \in Thread : Call(t)>>_vars
    \/ list # << >> /\ waitQueue # << >> ~> list = << >> \/ waitQueue = << >>
=============================================================================
