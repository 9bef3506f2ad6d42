------------------------------ MODULE Threads -------------------------------
(***************************************************************************)
(* The thread layer of the kernel: class Thread, class Scheduler, class    *)
(* Semaphore and the points at which class Interrupt lets the timer and    *)
(* the devices in.                                                         *)
(*                                                                         *)
(* Nachos has one processor.  Kernel code with interrupts off cannot be    *)
(* interrupted, and a context switch happens only inside Scheduler::Run.   *)
(* So at any time one thread, currentThread, moves:                        *)
(*   - with at[currentThread] = "code" it executes with interrupts on and  *)
(*     may call P, V, Fork, Finish, or be hit by the timer or a device;    *)
(*   - otherwise interrupts are off and it is inside Thread::Sleep looking *)
(*     for a successor, or just back from SWITCH inside Scheduler::Run.    *)
(***************************************************************************)
EXTENDS Integers, Sequences, FiniteSets, Queues

CONSTANTS Thread,      \* the Thread objects that can exist
          Main,        \* the thread Kernel::Initialize runs in
          Sem,         \* the semaphores
          DeviceSem,   \* those an interrupt handler V's (console, disk, net)
          InitValue,   \* InitValue[s]: the constructor's initialValue
          MaxValue,    \* bound on a semaphore's value in the checked runs
          NULL         \* the null pointer

ASSUME ThreadsAssumption ==
    /\ IsFiniteSet(Thread)
    /\ Main \in Thread
    /\ DeviceSem \subseteq Sem
    /\ InitValue \in [Sem -> Nat]
    /\ MaxValue \in Nat
    /\ NULL \notin Thread
    /\ NULL \notin Sem

VARIABLES currentThread,   \* kernel->currentThread
          readyList,       \* Scheduler::readyList
          toBeDestroyed,   \* Scheduler::toBeDestroyed
          status,          \* Thread::status; "NONE": no such object
          at,              \* where the thread is in the kernel
          value,           \* Semaphore::value
          queue,           \* Semaphore::queue
          waitOn,          \* the semaphore whose P() the thread is in
          idling           \* Sleep has called Idle since it was called

schedVars == <<currentThread, readyList, toBeDestroyed, status, at>>
vars == <<currentThread, readyList, toBeDestroyed, status, at,
          value, queue, waitOn, idling>>

Status == {"NONE", "READY", "RUNNING", "BLOCKED"}

(* "none": no thread; "begin": forked, never run; "code": executing with   *)
(* interrupts on; "yield": in the Run of Yield; "P": in the loop of P();   *)
(* "finish": in the Sleep(TRUE) of Finish.                                 *)
Place == {"none", "begin", "code", "yield", "P", "finish"}

Init ==
    /\ currentThread = Main
    /\ readyList = << >>
    /\ toBeDestroyed = NULL
    /\ status = [t \in Thread |-> IF t = Main THEN "RUNNING" ELSE "NONE"]
    /\ at = [t \in Thread |-> IF t = Main THEN "code" ELSE "none"]
    /\ value = InitValue
    /\ queue = [s \in Sem |-> << >>]
    /\ waitOn = [t \in Thread |-> NULL]
    /\ idling = FALSE

(* The current thread executes with interrupts on.                         *)
Executing == at[currentThread] = "code"

(* The current thread is inside the loop of Thread::Sleep: it is blocked,  *)
(* or a handler that ran during Idle already made it ready again.          *)
Sleeping ==
    /\ at[currentThread] \in {"P", "finish"}
    /\ status[currentThread] # "RUNNING"

(* The current thread is just back from SWITCH (or in Begin).              *)
Switched ==
    /\ at[currentThread] \in {"begin", "yield", "P"}
    /\ status[currentThread] = "RUNNING"

-----------------------------------------------------------------------------
(* Definitions named Wrong... are plausible mistakes in the definition that *)
(* follows them; they are used only to show that the properties below      *)
(* notice them.                                                            *)

(* Semaphore::P, called with interrupts on: consume, or queue and sleep.   *)
P(s) ==
    /\ Executing
    /\ \/ /\ value[s] # 0
          /\ value' = [value EXCEPT ![s] = @ - 1]
          /\ UNCHANGED <<queue, waitOn, status, at>>
       \/ /\ value[s] = 0
          /\ queue' = [queue EXCEPT ![s] = Append(@, currentThread)]
          /\ waitOn' = [waitOn EXCEPT ![currentThread] = s]
          /\ status' = [status EXCEPT ![currentThread] = "BLOCKED"]
          /\ at' = [at EXCEPT ![currentThread] = "P"]
          /\ UNCHANGED value
    /\ UNCHANGED <<currentThread, readyList, toBeDestroyed, idling>>

(* V() that looks at the front of the queue without removing it.           *)
WrongSignalKeepsHead(s) ==
    /\ value[s] < MaxValue
    /\ value' = [value EXCEPT ![s] = @ + 1]
    /\ queue[s] # << >>
    /\ readyList' = Append(readyList, Head(queue[s]))
    /\ status' = [status EXCEPT ![Head(queue[s])] = "READY"]
    /\ UNCHANGED <<currentThread, toBeDestroyed, at, queue, waitOn>>

(* V() that wakes a waiter only when it changes the value from zero.       *)
WrongSignalAtZero(s) ==
    /\ value[s] < MaxValue
    /\ value' = [value EXCEPT ![s] = @ + 1]
    /\ \/ /\ queue[s] = << >> \/ value[s] # 0
          /\ UNCHANGED <<queue, readyList, status>>
       \/ /\ queue[s] # << >> /\ value[s] = 0
          /\ queue' = [queue EXCEPT ![s] = Tail(@)]
          /\ readyList' = Append(readyList, Head(queue[s]))
          /\ status' = [status EXCEPT ![Head(queue[s])] = "READY"]
    /\ UNCHANGED <<currentThread, toBeDestroyed, at, waitOn>>

(* The body of Semaphore::V: the head of the queue, if any, is made ready  *)
(* and the value is incremented.  The woken thread is still in P().        *)
Signal(s) ==
    /\ value[s] < MaxValue
    /\ value' = [value EXCEPT ![s] = @ + 1]
    /\ \/ /\ queue[s] = << >>
          /\ UNCHANGED <<queue, readyList, status>>
       \/ /\ queue[s] # << >>
          /\ queue' = [queue EXCEPT ![s] = Tail(@)]
          /\ readyList' = Append(readyList, Head(queue[s]))
          /\ status' = [status EXCEPT ![Head(queue[s])] = "READY"]
    /\ UNCHANGED <<currentThread, toBeDestroyed, at, waitOn>>

(* Semaphore::V, called by the current thread.                             *)
V(s) == Executing /\ Signal(s) /\ UNCHANGED idling

(* An interrupt handler V's a device semaphore: from OneTick while a       *)
(* thread executes, or from Idle when Sleep finds no ready thread; then    *)
(* the loop of CheckIfDue may run further handlers.                        *)
DeviceInterrupt(s) ==
    /\ Executing \/ (Sleeping /\ (readyList = << >> \/ idling))
    /\ Signal(s)
    /\ idling' = Sleeping

(* new Thread and Thread::Fork: the new thread is put on the ready list.   *)
Fork(t) ==
    /\ Executing
    /\ status[t] = "NONE"
    /\ status' = [status EXCEPT ![t] = "READY"]
    /\ at' = [at EXCEPT ![t] = "begin"]
    /\ readyList' = Append(readyList, t)
    /\ UNCHANGED <<currentThread, toBeDestroyed, value, queue, waitOn,
                   idling>>

(* Yield that puts the caller at the front of the ready list.              *)
WrongYieldToFront ==
    /\ Executing
    /\ readyList # << >>
    /\ readyList' = <<currentThread>> \o Tail(readyList)
    /\ status' = [status EXCEPT ![currentThread] = "READY",
                                ![Head(readyList)] = "RUNNING"]
    /\ at' = [at EXCEPT ![currentThread] = "yield"]
    /\ currentThread' = Head(readyList)
    /\ UNCHANGED <<toBeDestroyed, value, queue, waitOn, idling>>

(* Thread::Yield with some thread ready; called by the current thread, or  *)
(* by OneTick when the timer handler asked for it (yieldOnReturn).         *)
Yield ==
    /\ Executing
    /\ readyList # << >>
    /\ readyList' = Append(Tail(readyList), currentThread)
    /\ status' = [status EXCEPT ![currentThread] = "READY",
                                ![Head(readyList)] = "RUNNING"]
    /\ at' = [at EXCEPT ![currentThread] = "yield"]
    /\ currentThread' = Head(readyList)
    /\ UNCHANGED <<toBeDestroyed, value, queue, waitOn, idling>>

(* Thread::Finish up to the loop of Sleep(TRUE).                           *)
Finish ==
    /\ Executing
    /\ status' = [status EXCEPT ![currentThread] = "BLOCKED"]
    /\ at' = [at EXCEPT ![currentThread] = "finish"]
    /\ UNCHANGED <<currentThread, readyList, toBeDestroyed,
                   value, queue, waitOn, idling>>

(* Thread::Sleep found a ready thread: Scheduler::Run switches to it and   *)
(* remembers a finishing thread for destruction.                           *)
SleepRun ==
    /\ Sleeping
    /\ readyList # << >>
    /\ readyList' = Tail(readyList)
    /\ currentThread' = Head(readyList)
    /\ status' = [status EXCEPT ![Head(readyList)] = "RUNNING"]
    /\ toBeDestroyed' = IF at[currentThread] = "finish"
                        THEN currentThread ELSE toBeDestroyed
    /\ idling' = FALSE
    /\ UNCHANGED <<at, value, queue, waitOn>>

(* Scheduler::CheckToBeDestroyed: the carcass left by Finish, if any, is   *)
(* deleted.  Applied to the status and the place functions.                *)
CheckToBeDestroyed(f, gone) ==
    IF toBeDestroyed = NULL THEN f ELSE [f EXCEPT ![toBeDestroyed] = gone]

(* A return from SWITCH that forgets CheckToBeDestroyed.                   *)
WrongReturnNoDestroy ==
    /\ Switched
    /\ at[currentThread] # "P"
    /\ at' = [at EXCEPT ![currentThread] = "code"]
    /\ UNCHANGED <<currentThread, readyList, toBeDestroyed, status,
                   value, queue, waitOn, idling>>

(* Back from SWITCH in Begin or in Yield: interrupts are enabled again.    *)
Return ==
    /\ Switched
    /\ at[currentThread] # "P"
    /\ toBeDestroyed' = NULL
    /\ status' = CheckToBeDestroyed(status, "NONE")
    /\ at' = [CheckToBeDestroyed(at, "none") EXCEPT ![currentThread] = "code"]
    /\ UNCHANGED <<currentThread, readyList, value, queue, waitOn, idling>>

(* P() that takes its wake-up for the unit, and leaves the value alone.    *)
WrongRetryNoTake ==
    /\ Switched
    /\ at[currentThread] = "P"
    /\ toBeDestroyed' = NULL
    /\ waitOn' = [waitOn EXCEPT ![currentThread] = NULL]
    /\ status' = CheckToBeDestroyed(status, "NONE")
    /\ at' = [CheckToBeDestroyed(at, "none") EXCEPT ![currentThread] = "code"]
    /\ UNCHANGED <<currentThread, readyList, value, queue, idling>>

(* Back from SWITCH in P(): the loop tests the value again.                *)
Retry ==
    /\ Switched
    /\ at[currentThread] = "P"
    /\ toBeDestroyed' = NULL
    /\ LET s == waitOn[currentThread] IN
       \/ /\ value[s] # 0
          /\ value' = [value EXCEPT ![s] = @ - 1]
          /\ waitOn' = [waitOn EXCEPT ![currentThread] = NULL]
          /\ status' = CheckToBeDestroyed(status, "NONE")
          /\ at' = [CheckToBeDestroyed(at, "none")
                       EXCEPT ![currentThread] = "code"]
          /\ UNCHANGED queue
       \/ /\ value[s] = 0
          /\ queue' = [queue EXCEPT ![s] = Append(@, currentThread)]
          /\ status' = [CheckToBeDestroyed(status, "NONE")
                           EXCEPT ![currentThread] = "BLOCKED"]
          /\ at' = CheckToBeDestroyed(at, "none")
          /\ UNCHANGED <<value, waitOn>>
    /\ UNCHANGED <<currentThread, readyList, idling>>

Next ==
    \/ \E s \in Sem : P(s) \/ V(s)
    \/ \E s \in DeviceSem : DeviceInterrupt(s)
    \/ \E t \in Thread : Fork(t)
    \/ Yield \/ Finish \/ SleepRun \/ Return \/ Retry

Spec == Init /\ [][Next]_vars

(* The timer re-arms itself in every callback (Timer::SetInterrupt) and    *)
(* kernel code never runs with interrupts off for ever, so a thread that   *)
(* keeps executing is made to yield; code that runs with interrupts off    *)
(* runs to its end.                                                        *)
FairSpec == Spec /\ WF_vars(Yield) /\ WF_vars(SleepRun)
                 /\ WF_vars(Return) /\ WF_vars(Retry)
-----------------------------------------------------------------------------
(* Types.  A semaphore's value is never negative (threads/synch.h: "value, *)
(* always >= 0").                                                          *)
TypeOK ==
    /\ currentThread \in Thread
    /\ readyList \in Seq(Thread)
    /\ toBeDestroyed \in Thread \cup {NULL}
    /\ status \in [Thread -> Status]
    /\ at \in [Thread -> Place]
    /\ value \in [Sem -> Nat]
    /\ queue \in [Sem -> Seq(Thread)]
    /\ waitOn \in [Thread -> Sem \cup {NULL}]

(* Every thread is in one place: the ready list holds exactly the READY    *)
(* threads, the queue of a semaphore exactly the threads blocked in its    *)
(* P(), each once, and nobody but the current thread is RUNNING.  This is  *)
(* what makes the ASSERT(!IsInList(item)) of List::Append hold at every    *)
(* Append of ReadyToRun and of P().                                        *)
OnePlace ==
    /\ Elems(readyList) = {t \in Thread : status[t] = "READY"}
    /\ NoDuplicates(readyList)
    /\ \A s \in Sem :
          /\ Elems(queue[s]) =
                {t \in Thread : waitOn[t] = s /\ status[t] = "BLOCKED"}
          /\ NoDuplicates(queue[s])
    /\ \A t \in Thread : status[t] = "RUNNING" => t = currentThread

(* The asserts around the end of a thread: Run(next, TRUE) finds no other  *)
(* thread waiting for destruction (scheduler.cc), ~Thread never runs on    *)
(* the current thread (thread.cc), and what it deletes is in no list a     *)
(* later operation could take it from.                                     *)
CarcassSafe ==
    /\ Sleeping /\ at[currentThread] = "finish" => toBeDestroyed = NULL
    /\ toBeDestroyed # NULL =>
          /\ toBeDestroyed # currentThread
          /\ at[toBeDestroyed] = "finish"
          /\ toBeDestroyed \notin Elems(readyList)
          /\ \A s \in Sem : toBeDestroyed \notin Elems(queue[s])

(* The threads that V() took off the queue of s and that have not tested   *)
(* the value again.                                                        *)
Woken(s) == {t \in Thread : waitOn[t] = s /\ status[t] # "BLOCKED"}

(* No lost wake-up: although V() wakes a thread before it increments and   *)
(* a third thread may take the value in between, a positive value is never *)
(* left to threads that sleep: while somebody sleeps in P(), there are at  *)
(* least as many awake threads still inside P() as there are units.        *)
NoLostWakeup ==
    \A s \in Sem : queue[s] # << >> => value[s] <= Cardinality(Woken(s))

(* The thread layer implements the counting semaphores its clients rely    *)
(* on: every step is a P() that consumes, a P() that starts to wait, a     *)
(* V(), or does not touch a semaphore.                                     *)
Sems == INSTANCE Semaphores
ImplementsSemaphores == Sems!Spec

(* Round robin: a thread that was made ready gets the processor, whatever  *)
(* the others do (scheduler.cc: FIFO ready list, time slices).             *)
ReadyThreadRuns ==
    \A t \in Thread : status[t] = "READY" ~> currentThread = t

(* A unit released while threads sleep in P() is not left lying: the value *)
(* is consumed or nobody sleeps any more.                                  *)
UnitsAreTaken ==
    \A s \in Sem :
        value[s] > 0 /\ queue[s] # << >> ~> value[s] = 0 \/ queue[s] = << >>

(* The processor goes round, and what V() gives is taken: the two promises *)
(* of the scheduler and the semaphores that need time slices.              *)
Progress == ReadyThreadRuns /\ UnitsAreTaken
=============================================================================
