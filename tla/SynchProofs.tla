---------------------------- MODULE SynchProofs -----------------------------
(***************************************************************************)
(* Proofs about the two classes built from semaphores that implement       *)
(* module Channel.                                                         *)
(*                                                                         *)
(* SynchList, for any finite set of threads and any number of items:       *)
(* MutualExclusion, NoLostSignal, and ImplementsChannel.                   *)
(*                                                                         *)
(* SynchConsole, for any finite set of processes and any number of         *)
(* characters: OneAtATime and, without the byte 255, ReadsInOrder.         *)
(***************************************************************************)
EXTENDS SynchList, SynchConsole, TLAPS

(* What Append adds to a list.                                             *)
LEMMA AppendElems ==
    ASSUME NEW S, NEW q \in Seq(S), NEW e \in S
    PROVE  /\ Append(q, e) \in Seq(S)
           /\ Append(q, e) # << >>
           /\ Elems(Append(q, e)) = Elems(q) \cup {e}
           /\ NoDuplicates(q) /\ e \notin Elems(q) => NoDuplicates(Append(q, e))
<1>1. /\ Append(q, e) \in Seq(S) /\ Append(q, e) # << >>
      /\ Len(Append(q, e)) = Len(q) + 1 /\ Len(q) \in Nat
      /\ \A i \in 1..Len(q) : i \in 1..Len(q) + 1 /\ Append(q, e)[i] = q[i]
      /\ Append(q, e)[Len(q) + 1] = e
  OBVIOUS
<1>2. Elems(Append(q, e)) = Elems(q) \cup {e}
  BY <1>1 DEF Elems
<1>3. NoDuplicates(q) /\ e \notin Elems(q) => NoDuplicates(Append(q, e))
  BY <1>1 DEF Elems, NoDuplicates
<1> QED BY <1>1, <1>2, <1>3, Zenon

(* What Tail takes from a list without duplicates.                         *)
LEMMA TailElems ==
    ASSUME NEW S, NEW q \in Seq(S), q # << >>, NoDuplicates(q)
    PROVE  /\ Head(q) \in S /\ Head(q) \in Elems(q)
           /\ Tail(q) \in Seq(S) /\ NoDuplicates(Tail(q))
           /\ Elems(Tail(q)) = Elems(q) \ {Head(q)}
<1>1. /\ Len(Tail(q)) = Len(q) - 1 /\ Len(q) \in Nat \ {0} /\ Head(q) = q[1]
      /\ \A i \in 1..Len(q) - 1 : Tail(q)[i] = q[i + 1]
      /\ \A i \in 2..Len(q) : i - 1 \in 1..Len(q) - 1 /\ q[i] = Tail(q)[i - 1]
  OBVIOUS
<1>2. NoDuplicates(Tail(q))
  BY <1>1 DEF NoDuplicates
<1>3. Elems(q) = Elems(Tail(q)) \cup {Head(q)}
  <2>1. ASSUME NEW x \in Elems(q), x # Head(q) PROVE x \in Elems(Tail(q))
    <3>1. PICK i \in 2..Len(q) : x = q[i]
      BY <1>1, <2>1 DEF Elems
    <3> QED BY <1>1, <3>1, Zenon DEF Elems
  <2>2. Head(q) \in Elems(q) /\ Elems(Tail(q)) \subseteq Elems(q)
    BY <1>1 DEF Elems
  <2> QED BY <2>1, <2>2, Zenon
<1>4. Head(q) \notin Elems(Tail(q))
  BY <1>1 DEF Elems, NoDuplicates
<1> QED BY <1>2, <1>3, <1>4

(* The lock without counting: it is free and nobody is inside, or taken    *)
(* and one thread is.                                                      *)
Exclusive ==
    /\ \/ lock = 1 /\ Inside = {}
       \/ lock = 0 /\ \E t \in Thread : Inside = {t}
    /\ lockHolder # NULL => Inside = {lockHolder}
    /\ \A t \in Inside : pc[t] = "Release" => lockHolder = t

(* A thread has a waiter exactly from Condition::Wait on until it has left *)
(* RemoveFront, and the waiter has a unit only while the thread waits.     *)
Waiters ==
    \A t \in Thread :
        /\ waiter[t] # NoWaiter => pc[t] \in {"WaitP", "AcquireP", "Remove"}
        /\ waiter[t] = NoWaiter => pc[t] \notin {"WaitP", "AcquireP"}
        /\ waiter[t] = 1 => pc[t] = "WaitP"

(* The inductive invariant.                                                *)
IInv == TypeOK /\ Exclusive /\ Waiters /\ WaitersLive

(* The initial state satisfies it.                                         *)
LEMMA InitIInv == Init => IInv
<1> SUFFICES ASSUME Init PROVE IInv
  OBVIOUS
<1>1. TypeOK
  BY SynchListAssumption DEF Init, TypeOK, NewLock, NoWaiter, PC
<1>2. Exclusive
  BY Zenon DEF Init, Exclusive, Inside, NewLock
<1>3. Waiters
  BY DEF Init, Waiters, NoWaiter
<1>4. WaitersLive
  BY DEF Init, WaitersLive, Elems, NoDuplicates
<1> QED BY <1>1, <1>2, <1>3, <1>4, Zenon DEF IInv

(* A step of t that leaves the lock's semaphore as it is, stays outside or *)
(* inside, and sets the holder to itself at most.                          *)
LEMMA LockKept ==
    ASSUME NEW t \in Thread, IInv, NEW p \in PC,
           pc' = [pc EXCEPT ![t] = p], lock' = lock,
           pc[t] \in {"Append", "Release", "Remove", "Apply"}
              <=> p \in {"Append", "Release", "Remove", "Apply"},
           \/ lockHolder' = lockHolder /\ p # "Release"
           \/ lockHolder' = t /\ t \in Inside
    PROVE  Exclusive'
<1>1. pc \in [Thread -> PC] /\ lockHolder \in Thread \cup {NULL}
  BY Zenon DEF IInv, TypeOK
<1>2. /\ pc'[t] = p
      /\ \A u \in Thread : u # t => pc'[u] = pc[u]
  BY <1>1, Zenon
<1>3. Inside' = Inside
  BY <1>2 DEF Inside
<1>4. ASSUME NEW u \in Inside, pc'[u] = "Release" PROVE lockHolder' = u
  <2>1. CASE u = t
    BY <1>2, <1>4, <2>1, Zenon
  <2>2. CASE u # t
    <3>1. pc[u] = "Release" /\ lockHolder = u
      BY <1>2, <1>4, <2>2, Zenon DEF IInv, Exclusive, Inside
    <3>2. t \notin Inside
      BY <2>2 DEF IInv, Exclusive
    <3> QED BY <3>1, <3>2, Zenon
  <2> QED BY <2>1, <2>2, Zenon
<1>5. lockHolder' # NULL => Inside = {lockHolder'}
  BY Zenon DEF IInv, Exclusive
<1> QED BY <1>3, <1>4, <1>5, Zenon DEF IInv, Exclusive

(* The P() of Acquire.                                                     *)
LEMMA LockTaken ==
    ASSUME NEW t \in Thread, IInv, lock > 0, lock' = lock - 1,
           lockHolder' = lockHolder, NEW p \in {"Append", "Remove", "Apply"},
           pc' = [pc EXCEPT ![t] = p]
    PROVE  Exclusive'
<1>1. pc \in [Thread -> PC] /\ lock \in 0 .. 1
  BY Zenon DEF IInv, TypeOK
<1>2. lock = 1 /\ lock' = 0 /\ Inside = {} /\ lockHolder = NULL
  BY <1>1 DEF IInv, Exclusive
<1>3. Inside' = {t}
  BY <1>1, <1>2, Zenon DEF Inside
<1>4. pc'[t] # "Release"
  BY <1>1, Zenon
<1> QED BY <1>2, <1>3, <1>4 DEF Exclusive

(* Lock::Release by a thread that is inside.                               *)
LEMMA LockReleased ==
    ASSUME NEW t \in Inside, IInv, Release,
           NEW p \in {"idle", "WaitP"}, pc' = [pc EXCEPT ![t] = p]
    PROVE  Exclusive' /\ lock' = 1
<1>1. pc \in [Thread -> PC] /\ lock \in 0 .. 1 /\ t \in Thread
  BY Zenon DEF IInv, TypeOK, Inside
<1>2. lock = 0 /\ Inside = {t}
  BY Zenon DEF IInv, Exclusive
<1>3. lock' = 1 /\ lockHolder' = NULL
  BY <1>2 DEF Release
<1>4. Inside' = {}
  BY <1>1, <1>2, Zenon DEF Inside
<1> QED BY <1>3, <1>4, Zenon DEF Exclusive

-----------------------------------------------------------------------------
(* A step that touches neither waiters nor the wait queue, and takes its   *)
(* thread neither to nor from the P() of its waiter.                       *)
LEMMA WaitersKept ==
    ASSUME NEW t \in Thread, IInv, NEW p \in PC \ {"WaitP"},
           pc' = [pc EXCEPT ![t] = p], pc[t] # "WaitP",
           waiter[t] # NoWaiter => p \in {"AcquireP", "Remove"},
           waiter[t] = NoWaiter => p # "AcquireP",
           waiter' = waiter, waitQueue' = waitQueue
    PROVE  Waiters' /\ WaitersLive'
<1>1. /\ pc'[t] = p
      /\ \A u \in Thread : u # t => pc'[u] = pc[u]
  BY Zenon DEF IInv, TypeOK
<1>2. Waiters'
  BY <1>1 DEF IInv, Waiters
<1>3. {u \in Thread : pc[u] = "WaitP" /\ waiter[u] = 0}'
         = {u \in Thread : pc[u] = "WaitP" /\ waiter[u] = 0}
  BY <1>1, Zenon
<1> QED BY <1>2, <1>3, Zenon DEF IInv, WaitersLive

(* The list stays a list of numbers.                                       *)
LEMMA PutType ==
    ASSUME IInv, Put
    PROVE  list' \in Seq(Nat) /\ sent' \in Nat /\ Len(list') = Len(list) + 1
<1>1. list \in Seq(Nat) /\ sent + 1 \in Nat
  BY DEF IInv, TypeOK
<1> QED BY <1>1 DEF Put

(* Call and the P() of Acquire keep the invariant.                         *)
LEMMA CallIInv ==
    ASSUME NEW t \in Thread, IInv, Call(t)
    PROVE  IInv'
<1>1. PICK p \in {"AppendP", "RemoveP", "ApplyP"} : pc' = [pc EXCEPT ![t] = p]
  BY Zenon DEF Call, Go
<1>2. /\ pc[t] = "idle" /\ lock' = lock /\ lockHolder' = lockHolder
      /\ waitQueue' = waitQueue /\ waiter' = waiter
      /\ list' = list /\ sent' = sent /\ item' = item
  BY Zenon DEF Call, data
<1>3. p \in PC
  BY Zenon DEF PC
<1>4. TypeOK'
  BY <1>1, <1>2, <1>3, Zenon DEF IInv, TypeOK
<1>5. Exclusive'
  BY <1>1, <1>2, <1>3, LockKept, Zenon
<1>6. waiter[t] = NoWaiter
  BY <1>2, Zenon DEF IInv, Waiters
<1>7. Waiters' /\ WaitersLive'
  BY <1>1, <1>2, <1>3, <1>6, WaitersKept, Zenon
<1> QED BY <1>4, <1>5, <1>7, Zenon DEF IInv

(* A thread that gets the lock: nobody else has it.                        *)
LEMMA AcquireIInv ==
    ASSUME NEW t \in Thread, IInv, AcquireP(t)
    PROVE  IInv'
<1>1. PICK p \in {"Append", "Remove", "Apply"} :
         /\ pc' = [pc EXCEPT ![t] = p]
         /\ pc[t] = "AcquireP" => p = "Remove"
  BY Zenon DEF AcquireP, Go
<1>2. /\ pc[t] \in {"AppendP", "RemoveP", "ApplyP", "AcquireP"}
      /\ lock > 0 /\ lock' = lock - 1 /\ lockHolder' = lockHolder
      /\ waitQueue' = waitQueue /\ waiter' = waiter
      /\ list' = list /\ sent' = sent /\ item' = item
  BY Zenon DEF AcquireP, data
<1>3. p \in PC \ {"WaitP"}
  BY Zenon DEF PC
<1>4. TypeOK'
  BY <1>1, <1>2, <1>3 DEF IInv, TypeOK
<1>5. Exclusive'
  BY <1>1, <1>2, LockTaken, Zenon
<1>6. waiter[t] # NoWaiter => pc[t] = "AcquireP"
  BY <1>2, Zenon DEF IInv, Waiters
<1>7. Waiters' /\ WaitersLive'
  BY <1>1, <1>2, <1>3, <1>6, WaitersKept, Zenon
<1> QED BY <1>4, <1>5, <1>7, Zenon DEF IInv

(* Steps that only release the lock keep the invariant.                    *)
LEMMA ReleaseIInv ==
    ASSUME NEW t \in Thread, IInv,
           AppendRelease(t) \/ AppendEnds(t) \/ ApplyAll(t)
    PROVE  IInv'
<1>1. /\ pc[t] \in {"Append", "Release", "Apply"}
      /\ pc' = [pc EXCEPT ![t] = "idle"] /\ Release
      /\ waitQueue' = waitQueue /\ waiter' = waiter /\ item' = item
  BY Zenon DEF AppendRelease, AppendEnds, ApplyAll, Go, data
<1>2. t \in Inside /\ "idle" \in PC \ {"WaitP"}
  BY <1>1, Zenon DEF Inside, PC
<1>3. Exclusive' /\ lock' = 1
  BY <1>1, <1>2, LockReleased, Zenon
<1>4. list' \in Seq(Nat) /\ sent' \in Nat
  <2>1. CASE Put
    BY <2>1, PutType, Zenon
  <2>2. CASE UNCHANGED data
    BY <2>2, Zenon DEF data, IInv, TypeOK
  <2> QED BY <2>1, <2>2, Zenon DEF AppendRelease, AppendEnds, ApplyAll
<1>5. TypeOK'
  BY <1>1, <1>2, <1>3, <1>4 DEF IInv, TypeOK, Release
<1>6. waiter[t] = NoWaiter
  BY <1>1 DEF IInv, Waiters
<1>7. Waiters' /\ WaitersLive'
  BY <1>1, <1>2, <1>6, WaitersKept, Zenon
<1> QED BY <1>3, <1>5, <1>7, Zenon DEF IInv

(* The thread that Signal wakes.                                           *)
LEMMA Woken ==
    ASSUME NEW t \in Thread, IInv, AppendSignal(t)
    PROVE  \E h \in Thread :
              /\ h = Head(waitQueue) /\ h # t
              /\ pc[h] = "WaitP" /\ waiter[h] = 0
              /\ waiter' = [waiter EXCEPT ![h] = 1]
              /\ waitQueue' \in Seq(Thread)
              /\ Elems(waitQueue') = Elems(waitQueue) \ {h}
              /\ NoDuplicates(waitQueue')
<1>1. /\ waitQueue \in Seq(Thread) /\ waitQueue # << >>
      /\ waitQueue' = Tail(waitQueue) /\ pc[t] = "Append"
      /\ waiter' = [waiter EXCEPT ![Head(waitQueue)] = @ + 1]
      /\ waiter \in [Thread -> {0, 1, NoWaiter}]
  BY Zenon DEF AppendSignal, IInv, TypeOK
<1>2. /\ Head(waitQueue) \in Thread /\ Head(waitQueue) \in Elems(waitQueue)
      /\ Tail(waitQueue) \in Seq(Thread)
      /\ Elems(Tail(waitQueue)) = Elems(waitQueue) \ {Head(waitQueue)}
      /\ NoDuplicates(Tail(waitQueue))
  BY <1>1, TailElems, Zenon DEF IInv, WaitersLive
<1>3. pc[Head(waitQueue)] = "WaitP" /\ waiter[Head(waitQueue)] = 0
  BY <1>2, Zenon DEF IInv, WaitersLive
<1>4. waiter' = [waiter EXCEPT ![Head(waitQueue)] = 1]
  BY <1>1, <1>2, <1>3
<1> QED BY <1>1, <1>2, <1>3, <1>4, Zenon

(* SynchList::Append with Condition::Signal keeps the invariant.           *)
LEMMA SignalIInv ==
    ASSUME NEW t \in Thread, IInv, AppendSignal(t)
    PROVE  IInv'
<1>1. /\ pc[t] = "Append" /\ pc' = [pc EXCEPT ![t] = "Release"]
      /\ lock' = lock /\ lockHolder' = t /\ item' = item
      /\ list' \in Seq(Nat) /\ sent' \in Nat
  BY PutType DEF AppendSignal, Go
<1>2. PICK h \in Thread :
              /\ h = Head(waitQueue) /\ h # t
              /\ pc[h] = "WaitP" /\ waiter[h] = 0
              /\ waiter' = [waiter EXCEPT ![h] = 1]
              /\ waitQueue' \in Seq(Thread)
              /\ Elems(waitQueue') = Elems(waitQueue) \ {h}
              /\ NoDuplicates(waitQueue')
  BY Woken, Zenon
<1>3. t \in Inside /\ "Release" \in PC
  BY <1>1, Zenon DEF Inside, PC
<1>4. TypeOK'
  BY <1>1, <1>2, <1>3, Zenon DEF IInv, TypeOK
<1>5. Exclusive'
  BY <1>1, <1>3, LockKept, Zenon
<1>6. /\ pc'[t] = "Release" /\ waiter'[h] = 1
      /\ \A u \in Thread : u # t => pc'[u] = pc[u]
      /\ \A u \in Thread : u # h => waiter'[u] = waiter[u]
  BY <1>1, <1>2, Zenon DEF IInv, TypeOK
<1>7. Waiters'
  <2> SUFFICES ASSUME NEW u \in Thread
               PROVE  /\ waiter'[u] # NoWaiter => pc'[u] \in {"WaitP", "AcquireP", "Remove"}
                      /\ waiter'[u] = NoWaiter => pc'[u] \notin {"WaitP", "AcquireP"}
                      /\ waiter'[u] = 1 => pc'[u] = "WaitP"
    BY Zenon DEF Waiters
  <2>1. waiter[t] = NoWaiter
    BY <1>1, Zenon DEF IInv, Waiters
  <2> QED BY <1>2, <1>6, <2>1 DEF IInv, Waiters, NoWaiter
<1>8. WaitersLive'
  <2>1. {u \in Thread : pc'[u] = "WaitP" /\ waiter'[u] = 0}
           = {u \in Thread : pc[u] = "WaitP" /\ waiter[u] = 0} \ {h}
    BY <1>1, <1>2, <1>6
  <2> QED BY <1>2, <2>1, Zenon DEF IInv, WaitersLive
<1> QED BY <1>4, <1>5, <1>7, <1>8, Zenon DEF IInv

(* RemoveFront that finds an item keeps the invariant.                     *)
LEMMA TakeIInv ==
    ASSUME NEW t \in Thread, IInv, Take(t)
    PROVE  IInv'
<1>1. /\ pc[t] = "Remove" /\ pc' = [pc EXCEPT ![t] = "idle"] /\ Release
      /\ waiter' = [waiter EXCEPT ![t] = NoWaiter]
      /\ waitQueue' = waitQueue /\ sent' = sent
  BY Zenon DEF Take, Go
<1>2. t \in Inside /\ "idle" \in PC
  BY <1>1, Zenon DEF Inside, PC
<1>3. Exclusive' /\ lock' = 1
  BY <1>1, <1>2, LockReleased, Zenon
<1>4. list' \in Seq(Nat) /\ item' \in [Thread -> Nat]
  <2>1. list \in Seq(Nat) /\ list # << >> /\ item \in [Thread -> Nat]
    BY Zenon DEF Take, IInv, TypeOK
  <2>2. Head(list) \in Nat /\ Tail(list) \in Seq(Nat)
    BY <2>1
  <2> QED BY <2>1, <2>2, Zenon DEF Take
<1>5. TypeOK'
  <2>1. waiter' \in [Thread -> {0, 1, NoWaiter}] /\ pc' \in [Thread -> PC]
    BY <1>1, <1>2, Zenon DEF IInv, TypeOK
  <2>2. lockHolder' = NULL
    BY <1>1, Zenon DEF Release
  <2> QED BY <1>1, <1>3, <1>4, <2>1, <2>2 DEF IInv, TypeOK
<1>6. /\ pc'[t] = "idle" /\ waiter'[t] = NoWaiter
      /\ \A u \in Thread : u # t => pc'[u] = pc[u] /\ waiter'[u] = waiter[u]
  BY <1>1, Zenon DEF IInv, TypeOK
<1>7. Waiters'
  BY <1>6 DEF IInv, Waiters, NoWaiter
<1>8. {u \in Thread : pc'[u] = "WaitP" /\ waiter'[u] = 0}
         = {u \in Thread : pc[u] = "WaitP" /\ waiter[u] = 0}
  BY <1>1, <1>6
<1> QED BY <1>1, <1>3, <1>5, <1>7, <1>8, Zenon DEF IInv, WaitersLive

(* RemoveFront that goes to Condition::Wait keeps the invariant.           *)
LEMMA WaitIInv ==
    ASSUME NEW t \in Thread, IInv, Wait(t)
    PROVE  IInv'
<1>1. /\ pc[t] = "Remove" /\ pc' = [pc EXCEPT ![t] = "WaitP"] /\ Release
      /\ waiter' = [waiter EXCEPT ![t] = 0]
      /\ waitQueue' = Append(waitQueue, t)
      /\ list' = list /\ sent' = sent /\ item' = item
  BY Zenon DEF Wait, Go, data
<1>2. t \in Inside /\ "WaitP" \in PC
  BY <1>1, Zenon DEF Inside, PC
<1>3. Exclusive' /\ lock' = 1
  BY <1>1, <1>2, LockReleased, Zenon
<1>4. waitQueue \in Seq(Thread) /\ t \notin Elems(waitQueue)
  BY <1>1, Zenon DEF IInv, TypeOK, WaitersLive
<1>5. /\ waitQueue' \in Seq(Thread)
      /\ Elems(waitQueue') = Elems(waitQueue) \cup {t}
      /\ NoDuplicates(waitQueue')
  BY <1>1, <1>4, AppendElems DEF IInv, WaitersLive
<1>6. TypeOK'
  BY <1>1, <1>2, <1>3, <1>5 DEF IInv, TypeOK, Release
<1>7. /\ pc'[t] = "WaitP" /\ waiter'[t] = 0
      /\ \A u \in Thread : u # t => pc'[u] = pc[u] /\ waiter'[u] = waiter[u]
  BY <1>1, Zenon DEF IInv, TypeOK
<1>8. Waiters'
  BY <1>7 DEF IInv, Waiters, NoWaiter
<1>9. {u \in Thread : pc'[u] = "WaitP" /\ waiter'[u] = 0}
         = {u \in Thread : pc[u] = "WaitP" /\ waiter[u] = 0} \cup {t}
  BY <1>7, Zenon
<1> QED BY <1>3, <1>5, <1>6, <1>8, <1>9, Zenon DEF IInv, WaitersLive

(* The return of waiter->P() keeps the invariant.                          *)
LEMMA WaitPIInv ==
    ASSUME NEW t \in Thread, IInv, WaitP(t)
    PROVE  IInv'
<1>1. /\ pc[t] = "WaitP" /\ waiter[t] = 1
      /\ pc' = [pc EXCEPT ![t] = "AcquireP"]
      /\ waiter' = [waiter EXCEPT ![t] = 0]
      /\ waitQueue' = waitQueue /\ lock' = lock /\ lockHolder' = lockHolder
      /\ list' = list /\ sent' = sent /\ item' = item
  BY Zenon DEF WaitP, Go, data
<1>2. "AcquireP" \in PC
  BY Zenon DEF PC
<1>3. Exclusive'
  BY <1>1, <1>2, LockKept, Zenon
<1>4. TypeOK'
  BY <1>1, <1>2, Zenon DEF IInv, TypeOK
<1>5. /\ pc'[t] = "AcquireP" /\ waiter'[t] = 0
      /\ \A u \in Thread : u # t => pc'[u] = pc[u] /\ waiter'[u] = waiter[u]
  BY <1>1, Zenon DEF IInv, TypeOK
<1>6. Waiters'
  BY <1>5 DEF IInv, Waiters, NoWaiter
<1>7. {u \in Thread : pc'[u] = "WaitP" /\ waiter'[u] = 0}
         = {u \in Thread : pc[u] = "WaitP" /\ waiter[u] = 0}
  BY <1>1, <1>5
<1> QED BY <1>1, <1>3, <1>4, <1>6, <1>7, Zenon DEF IInv, WaitersLive

(* Every step keeps the invariant.                                         *)
LEMMA NextIInv == IInv /\ [Next]_vars => IInv'
<1> SUFFICES ASSUME IInv, [Next]_vars PROVE IInv'
  OBVIOUS
<1>1. ASSUME NEW t \in Thread, Call(t) \/ Step(t) PROVE IInv'
  <2>1. CASE Call(t) \/ AcquireP(t)
    BY <2>1, CallIInv, AcquireIInv, Zenon
  <2>2. CASE AppendSignal(t) \/ Take(t)
    BY <2>2, SignalIInv, TakeIInv, Zenon
  <2>3. CASE AppendRelease(t) \/ AppendEnds(t) \/ ApplyAll(t)
    BY <2>3, ReleaseIInv, Zenon
  <2>4. CASE Wait(t) \/ WaitP(t)
    BY <2>4, WaitIInv, WaitPIInv
  <2> QED BY <1>1, <2>1, <2>2, <2>3, <2>4, Zenon DEF Step
<1>2. CASE UNCHANGED vars
  <2>1. TypeOK'
    BY <1>2, Zenon DEF vars, IInv, TypeOK
  <2>2. Inside' = Inside
    BY <1>2, Zenon DEF vars, Inside
  <2>3. Exclusive'
    BY <1>2, <2>2, Zenon DEF vars, IInv, Exclusive
  <2>4. Waiters' /\ WaitersLive'
    BY <1>2, Zenon DEF vars, IInv, Waiters, WaitersLive
  <2> QED BY <2>1, <2>3, <2>4, Zenon DEF IInv
<1> QED BY <1>1, <1>2, Zenon DEF Next

(* The inductive invariant holds in every state.                           *)
THEOREM Invariance == Spec => []IInv
BY InitIInv, NextIInv, PTL DEF Spec

-----------------------------------------------------------------------------
(* SynchList implements Channel: an item that is appended is taken once,   *)
(* by one thread, in the order of the Appends.                             *)
THEOREM Refinement == Spec => ImplementsChannel
<1>1. Init => Chan!Init
  BY Zenon DEF Init, Chan!Init
<1>2. [Next]_vars => [Chan!Next]_Chan!chanVars
  <2> SUFFICES ASSUME [Next]_vars PROVE [Chan!Next]_Chan!chanVars
    BY Zenon
  <2>1. ASSUME NEW t \in Thread, Call(t) \/ Step(t)
        PROVE  Chan!Next \/ UNCHANGED data
    <3>1. CASE AppendSignal(t) \/ AppendRelease(t)
      BY <3>1, Zenon DEF AppendSignal, AppendRelease, Put, Chan!Next, Chan!Put
    <3>2. CASE Take(t)
      BY <3>2, Zenon DEF Take, Chan!Next, Chan!Get
    <3>3. CASE Call(t) \/ AcquireP(t) \/ AppendEnds(t) \/ Wait(t) \/ WaitP(t) \/ ApplyAll(t)
      BY <3>3, Zenon DEF Call, AcquireP, AppendEnds, Wait, WaitP, ApplyAll
    <3> QED BY <2>1, <3>1, <3>2, <3>3, Zenon DEF Step
  <2>2. CASE UNCHANGED vars
    BY <2>2, Zenon DEF vars, Chan!chanVars
  <2> QED BY <2>1, <2>2, Zenon DEF Next, data, Chan!chanVars
<1> QED BY <1>1, <1>2, PTL DEF Spec, ImplementsChannel, Chan!Spec
-----------------------------------------------------------------------------
(* The keyboard without counting.  The first two conjuncts say that GetChar *)
(* has the lock from Acquire to Release; without them the lock could get a *)
(* second unit.                                                            *)
InInv ==
    /\ \A p \in Proc : at[p] \in {"GetWait", "Get"} => inLock = 0
    /\ \A p, q \in Proc :
          at[p] \in {"GetWait", "Get"} /\ at[q] \in {"GetWait", "Get"} => p = q
    /\ \A p \in Proc : at[p] = "Get" => ~inPending /\ inWait = 0
    /\ inWait = 1 => ~inPending
    /\ inPending => incoming = EOF
    /\ incoming # EOF => incoming = taken /\ (inWait = 1 \/ \E p \in Proc : at[p] = "Get")

(* The display without counting.                                           *)
OutInv ==
    /\ outLock = 0 <=> \E p \in Proc : at[p] \in {"Put", "PutWait", "PutRelease"}
    /\ \A p, q \in Proc :
          /\ at[p] \in {"Put", "PutWait", "PutRelease"}
          /\ at[q] \in {"Put", "PutWait", "PutRelease"}
          => p = q
    /\ putBusy <=> outPending
    /\ \A p \in Proc : at[p] = "Put" => ~putBusy /\ outWait = 0
    /\ (\E p \in Proc : at[p] = "PutWait") <=> putBusy \/ outWait = 1
    /\ ~(putBusy /\ outWait = 1)

(* The inductive invariant.                                                *)
ConsoleInv == ConsoleTypeOK /\ InInv /\ OutInv

(* The initial state satisfies it.                                         *)
LEMMA InitConsole == ConsoleInit => ConsoleInv
<1> SUFFICES ASSUME ConsoleInit PROVE ConsoleInv
  BY Zenon
<1>1. ConsoleTypeOK
  <2>1. << >> \in Seq(Key) /\ Len(<< >>) = 0 /\ 0 <= MaxKeys
    BY SynchConsoleAssumption
  <2>2. "idle" \in Place /\ 0 \in LeftAt("idle") /\ 0 \in 0 .. MaxText
    BY SynchConsoleAssumption DEF Place, LeftAt
  <2>3. gotKey \in [Proc -> 0 .. MaxKeys]
    BY <2>1 DEF ConsoleInit
  <2>4. /\ at \in [Proc -> Place] /\ left \in [Proc -> {Line} \cup 0 .. MaxText]
        /\ \A p \in Proc : left[p] \in LeftAt(at[p])
    BY <2>2, Zenon DEF ConsoleInit
  <2>5. /\ typed \in Seq(Key) /\ Len(typed) <= MaxKeys
        /\ taken \in 0 .. Len(typed) /\ incoming \in 0 .. Len(typed)
    BY <2>1 DEF ConsoleInit, EOF
  <2>6. /\ atEnd \in BOOLEAN /\ inPending \in BOOLEAN
        /\ putBusy \in BOOLEAN /\ outPending \in BOOLEAN
    BY Zenon DEF ConsoleInit
  <2> QED BY <2>3, <2>4, <2>5, <2>6 DEF ConsoleInit, ConsoleTypeOK
<1>2. InInv
  BY DEF ConsoleInit, InInv
<1>3. OutInv
  BY DEF ConsoleInit, OutInv
<1> QED BY <1>1, <1>2, <1>3, Zenon DEF ConsoleInv

(* A process that goes to another place with what is left for it.          *)
LEMMA Moves ==
    ASSUME ConsoleTypeOK, NEW p \in Proc, NEW to \in Place, GoTo(p, to),
           NEW n \in LeftAt(to), left' = [left EXCEPT ![p] = n]
    PROVE  /\ at' \in [Proc -> Place] /\ left' \in [Proc -> {Line} \cup 0 .. MaxText]
           /\ \A q \in Proc : left'[q] \in LeftAt(at'[q])
           /\ at'[p] = to
           /\ \A q \in Proc : q # p => at'[q] = at[q]
<1>1. /\ at \in [Proc -> Place] /\ left \in [Proc -> {Line} \cup 0 .. MaxText]
      /\ \A q \in Proc : left[q] \in LeftAt(at[q])
  BY Zenon DEF ConsoleTypeOK
<1>2. at' = [at EXCEPT ![p] = to]
  BY Zenon DEF GoTo
<1>3. n \in {Line} \cup 0 .. MaxText
  BY SynchConsoleAssumption DEF LeftAt
<1>4. at' \in [Proc -> Place] /\ left' \in [Proc -> {Line} \cup 0 .. MaxText]
  BY <1>1, <1>2, <1>3, Zenon
<1>5. \A q \in Proc : /\ at'[q] = IF q = p THEN to ELSE at[q]
                      /\ left'[q] = IF q = p THEN n ELSE left[q]
  BY <1>1, <1>2, Zenon
<1>6. \A q \in Proc : left'[q] \in LeftAt(at'[q])
  BY <1>1, <1>5, Zenon
<1> QED BY <1>4, <1>5, <1>6, Zenon

(* The same when nothing of it is moved.                                   *)
LEMMA MovesOnly ==
    ASSUME ConsoleTypeOK, NEW p \in Proc, NEW to \in Place, GoTo(p, to), left' = left,
           LeftAt(at[p]) \subseteq LeftAt(to)
    PROVE  /\ at' \in [Proc -> Place] /\ left' \in [Proc -> {Line} \cup 0 .. MaxText]
           /\ \A q \in Proc : left'[q] \in LeftAt(at'[q])
           /\ at'[p] = to
           /\ \A q \in Proc : q # p => at'[q] = at[q]
<1>1. left = [left EXCEPT ![p] = left[p]] /\ left[p] \in LeftAt(to)
  BY Zenon DEF ConsoleTypeOK
<1> QED BY <1>1, Moves, Zenon
-----------------------------------------------------------------------------
(* The keyboard and the display keep the invariant.                        *)
LEMMA TypeStep == ASSUME ConsoleInv, Type PROVE ConsoleInv'
<1>1. PICK k \in Key : typed' = Append(typed, k)
  BY Zenon DEF Type
<1>2. typed' \in Seq(Key) /\ Len(typed') = Len(typed) + 1
  BY <1>1 DEF ConsoleInv, ConsoleTypeOK
<1>3. Len(typed) \in Nat /\ Len(typed') <= MaxKeys
  BY <1>2, SynchConsoleAssumption DEF Type, ConsoleInv, ConsoleTypeOK
<1>4. taken \in 0 .. Len(typed') /\ incoming \in 0 .. Len(typed')
  BY <1>2, <1>3 DEF ConsoleInv, ConsoleTypeOK
<1>5. ConsoleTypeOK'
  BY <1>2, <1>3, <1>4, Zenon DEF ConsoleInv, ConsoleTypeOK, Type, outVars
<1>6. InInv' /\ OutInv'
  BY Zenon DEF ConsoleInv, InInv, OutInv, Type, outVars
<1> QED BY <1>5, <1>6, Zenon DEF ConsoleInv

(* The input ends.                                                         *)
LEMMA EndInputStep == ASSUME ConsoleInv, EndInput PROVE ConsoleInv'
<1>1. ConsoleTypeOK'
  BY Zenon DEF ConsoleInv, ConsoleTypeOK, EndInput, outVars
<1>2. InInv' /\ OutInv'
  BY Zenon DEF ConsoleInv, InInv, OutInv, EndInput, outVars
<1> QED BY <1>1, <1>2, Zenon DEF ConsoleInv

(* The poll finds a character: no reader has one.                          *)
LEMMA ReadKeyStep == ASSUME ConsoleInv, ReadKey PROVE ConsoleInv'
<1>1. /\ Len(typed) \in Nat /\ taken \in 0 .. Len(typed) /\ taken < Len(typed)
      /\ inPending /\ incoming = EOF /\ inWait = 0
  BY DEF ConsoleInv, InInv, ConsoleTypeOK, ReadKey
<1>2. /\ taken' = taken + 1 /\ typed' = typed /\ inWait' = 1 /\ inPending' = FALSE
      /\ incoming' \in {EOF, taken + 1}
  BY <1>1 DEF ReadKey
<1>3. taken' \in 0 .. Len(typed) /\ incoming' \in 0 .. Len(typed)
  BY <1>1, <1>2 DEF EOF
<1>4. ConsoleTypeOK'
  <2>1. inPending' \in BOOLEAN
    BY Zenon DEF ReadKey
  <2> QED BY <1>2, <1>3, <2>1 DEF ConsoleInv, ConsoleTypeOK, ReadKey, outVars
<1>5. \A p \in Proc : at[p] # "Get"
  BY <1>1, Zenon DEF ConsoleInv, InInv
<1>6. InInv'
  BY <1>2, <1>5, Zenon DEF ConsoleInv, InInv, ReadKey
<1>7. OutInv'
  BY Zenon DEF ConsoleInv, OutInv, ReadKey, outVars
<1> QED BY <1>4, <1>6, <1>7, Zenon DEF ConsoleInv

(* The poll finds the end of the input.                                    *)
LEMMA ReadEndStep == ASSUME ConsoleInv, ReadEnd PROVE ConsoleInv'
<1>1. inPending /\ incoming = EOF /\ inWait = 0
  BY DEF ConsoleInv, InInv, ConsoleTypeOK, ReadEnd
<1>2. inWait' = 1 /\ inPending' = FALSE /\ incoming' = EOF
  BY <1>1 DEF ReadEnd
<1>3. ConsoleTypeOK'
  <2>1. inPending' \in BOOLEAN
    BY Zenon DEF ReadEnd
  <2> QED BY <1>2, <2>1 DEF ConsoleInv, ConsoleTypeOK, ReadEnd, outVars
<1>4. \A p \in Proc : at[p] # "Get"
  BY <1>1, Zenon DEF ConsoleInv, InInv
<1>5. InInv'
  BY <1>2, <1>4, Zenon DEF ConsoleInv, InInv, ReadEnd
<1>6. OutInv'
  BY Zenon DEF ConsoleInv, OutInv, ReadEnd, outVars
<1> QED BY <1>3, <1>5, <1>6, Zenon DEF ConsoleInv

(* The display has shown the character: its writer waits.                  *)
LEMMA DisplayDoneStep == ASSUME ConsoleInv, DisplayDone PROVE ConsoleInv'
<1>1. outPending /\ putBusy /\ outWait = 0
  BY DEF ConsoleInv, OutInv, ConsoleTypeOK, DisplayDone
<1>2. /\ outWait' = 1 /\ putBusy' = FALSE /\ outPending' = FALSE
      /\ outLock' = outLock /\ at' = at
  BY <1>1 DEF DisplayDone
<1>3. ConsoleTypeOK'
  <2>1. putBusy' \in BOOLEAN /\ outPending' \in BOOLEAN
    BY Zenon DEF DisplayDone
  <2> QED BY <1>2, <2>1 DEF ConsoleInv, ConsoleTypeOK, DisplayDone, inVars
<1>4. InInv'
  BY Zenon DEF ConsoleInv, InInv, DisplayDone, inVars
<1>5. \A p \in Proc : at[p] # "Put"
  BY <1>1, Zenon DEF ConsoleInv, OutInv
<1>6. \E p \in Proc : at[p] = "PutWait"
  BY <1>1, Zenon DEF ConsoleInv, OutInv
<1>7. OutInv'
  BY <1>2, <1>5, <1>6, Zenon DEF ConsoleInv, OutInv
<1> QED BY <1>3, <1>4, <1>7, Zenon DEF ConsoleInv
-----------------------------------------------------------------------------
(* A process that stays out of the keyboard's, or of the display's, code.  *)
LEMMA InKept ==
    ASSUME ConsoleInv, NEW p \in Proc, UNCHANGED inVars,
           \A q \in Proc : q # p => at'[q] = at[q],
           at[p] \notin {"GetWait", "Get"}, at'[p] \notin {"GetWait", "Get"}
    PROVE  InInv'
<1>1. \A q \in Proc : at'[q] \in {"GetWait", "Get"} \/ at[q] \in {"GetWait", "Get"}
                        => at'[q] = at[q]
  BY Zenon
<1> QED BY <1>1, Zenon DEF ConsoleInv, InInv, inVars

(* Likewise the display, in a step of a reader.                            *)
LEMMA OutKept ==
    ASSUME ConsoleInv, NEW p \in Proc, UNCHANGED outVars,
           \A q \in Proc : q # p => at'[q] = at[q],
           at[p] \notin {"Put", "PutWait", "PutRelease"},
           at'[p] \notin {"Put", "PutWait", "PutRelease"}
    PROVE  OutInv'
<1>1. \A q \in Proc : \/ at'[q] \in {"Put", "PutWait", "PutRelease"}
                      \/ at[q] \in {"Put", "PutWait", "PutRelease"}
                        => at'[q] = at[q]
  BY Zenon
<1>2. outLock' = outLock /\ putBusy' = putBusy /\ outPending' = outPending
      /\ outWait' = outWait
  BY Zenon DEF outVars
<1> QED BY <1>1, <1>2, Zenon DEF ConsoleInv, OutInv

(* The system calls keep it.                                               *)
LEMMA SystemCallStep == ASSUME ConsoleInv, NEW p \in Proc, SystemCall(p) PROVE ConsoleInv'
<1>1. /\ at[p] = "idle" /\ UNCHANGED <<inVars, outVars>>
  BY Zenon DEF SystemCall
<1>2. PICK to \in {"GetLock", "PutLock"} :
         GoTo(p, to) /\ \E n \in LeftAt(to) : left' = [left EXCEPT ![p] = n]
  <2>1. LeftAt("GetLock") = {Line} \cup 1 .. MaxText /\ LeftAt("PutLock") = 1 .. MaxText
    BY Zenon DEF LeftAt
  <2> QED BY <2>1, Zenon DEF SystemCall
<1>3. /\ at' \in [Proc -> Place] /\ left' \in [Proc -> {Line} \cup 0 .. MaxText]
      /\ \A q \in Proc : left'[q] \in LeftAt(at'[q])
      /\ at'[p] = to
      /\ \A q \in Proc : q # p => at'[q] = at[q]
  <2>1. ConsoleTypeOK /\ to \in Place
    BY Zenon DEF ConsoleInv, Place
  <2>2. PICK n \in LeftAt(to) : left' = [left EXCEPT ![p] = n]
    BY <1>2, Zenon
  <2> QED BY <1>2, <2>1, <2>2, Moves, Zenon
<1>4. ConsoleTypeOK'
  BY <1>1, <1>3, Zenon DEF ConsoleInv, ConsoleTypeOK, inVars, outVars
<1>5. InInv'
  BY <1>1, <1>3, InKept, Zenon
<1>6. OutInv'
  BY <1>1, <1>3, OutKept, Zenon
<1> QED BY <1>4, <1>5, <1>6, Zenon DEF ConsoleInv

(* The reader that gets the lock is the only one past it.                  *)
LEMMA GetLockStep == ASSUME ConsoleInv, NEW p \in Proc, GetLock(p) PROVE ConsoleInv'
<1>1. /\ at[p] = "GetLock" /\ inLock = 1 /\ inLock' = 0
      /\ GoTo(p, "GetWait") /\ left' = left
  BY DEF GetLock, ConsoleInv, ConsoleTypeOK
<1>2. LeftAt(at[p]) \subseteq LeftAt("GetWait") /\ "GetWait" \in Place
  BY <1>1, Zenon DEF LeftAt, Place
<1>3. /\ at' \in [Proc -> Place] /\ left' \in [Proc -> {Line} \cup 0 .. MaxText]
      /\ \A q \in Proc : left'[q] \in LeftAt(at'[q])
      /\ at'[p] = "GetWait"
      /\ \A q \in Proc : q # p => at'[q] = at[q]
  BY <1>1, <1>2, MovesOnly, Zenon DEF ConsoleInv
<1>4. ConsoleTypeOK'
  BY <1>1, <1>3 DEF ConsoleInv, ConsoleTypeOK, GetLock, outVars
<1>5. \A q \in Proc : at[q] \notin {"GetWait", "Get"}
  BY <1>1 DEF ConsoleInv, InInv
<1>6. InInv'
  BY <1>1, <1>3, <1>5, Zenon DEF ConsoleInv, InInv, GetLock
<1>7. OutInv'
  BY <1>1, <1>3, OutKept, SMTT(30) DEF GetLock
<1> QED BY <1>4, <1>6, <1>7, Zenon DEF ConsoleInv

(* The unit of waitFor goes to the reader that has the lock.               *)
LEMMA GetWaitStep == ASSUME ConsoleInv, NEW p \in Proc, GetWait(p) PROVE ConsoleInv'
<1>1. /\ at[p] = "GetWait" /\ inWait = 1 /\ inWait' = 0
      /\ GoTo(p, "Get") /\ left' = left
  BY DEF GetWait, ConsoleInv, ConsoleTypeOK
<1>2. LeftAt(at[p]) \subseteq LeftAt("Get") /\ "Get" \in Place
  BY <1>1, Zenon DEF LeftAt, Place
<1>3. /\ at' \in [Proc -> Place] /\ left' \in [Proc -> {Line} \cup 0 .. MaxText]
      /\ \A q \in Proc : left'[q] \in LeftAt(at'[q])
      /\ at'[p] = "Get"
      /\ \A q \in Proc : q # p => at'[q] = at[q]
  BY <1>1, <1>2, MovesOnly, Zenon DEF ConsoleInv
<1>4. ConsoleTypeOK'
  BY <1>1, <1>3 DEF ConsoleInv, ConsoleTypeOK, GetWait, outVars
<1>5. \A q \in Proc : q # p => at'[q] \notin {"GetWait", "Get"}
  BY <1>1, <1>3, Zenon DEF ConsoleInv, InInv
<1>6. inLock = 0 /\ ~inPending
  BY <1>1, Zenon DEF ConsoleInv, InInv
<1>7. InInv'
  BY <1>1, <1>3, <1>5, <1>6, Zenon DEF ConsoleInv, InInv, GetWait
<1>8. OutInv'
  BY <1>1, <1>3, OutKept, SMTT(30) DEF GetWait
<1> QED BY <1>4, <1>7, <1>8 DEF ConsoleInv

(* GetChar: either it schedules a poll or there was only EOF.              *)
LEMMA GetStep == ASSUME ConsoleInv, NEW p \in Proc, Get(p) PROVE ConsoleInv'
<1> DEFINE to == IF LastGet(p) THEN "idle" ELSE "GetLock"
           n == IF LastGet(p) THEN 0 ELSE IF left[p] = Line THEN Line ELSE left[p] - 1
<1>1. /\ at[p] = "Get" /\ GoTo(p, to)
      /\ left' = [left EXCEPT ![p] = n]
  BY Zenon DEF Get
<1>2. to \in Place /\ n \in LeftAt(to)
  <2>1. left[p] \in {Line} \cup 1 .. MaxText
    BY <1>1, Zenon DEF ConsoleInv, ConsoleTypeOK, LeftAt
  <2>2. ~LastGet(p) => left[p] # 1
    BY Zenon DEF LastGet
  <2>3. ~LastGet(p) => n \in {Line} \cup 1 .. MaxText
    BY <2>1, <2>2, SynchConsoleAssumption DEF Line
  <2> QED BY <2>3, Zenon DEF Place, LeftAt
<1> HIDE DEF n
<1>3. /\ at' \in [Proc -> Place] /\ left' \in [Proc -> {Line} \cup 0 .. MaxText]
      /\ \A q \in Proc : left'[q] \in LeftAt(at'[q])
      /\ at'[p] = to
      /\ \A q \in Proc : q # p => at'[q] = at[q]
  BY <1>1, <1>2, Moves, Zenon DEF ConsoleInv
<1>4. /\ inLock = 0 /\ ~inPending /\ inWait = 0
      /\ \A q \in Proc : q # p => at'[q] \notin {"GetWait", "Get"}
  BY <1>1, <1>3, Zenon DEF ConsoleInv, InInv
<1>5. /\ inLock' = 1 /\ inWait' = 0 /\ incoming' = EOF
      /\ at'[p] \notin {"GetWait", "Get"}
  BY <1>3, <1>4 DEF Get, TakeIncoming
<1>6. inPending' \in BOOLEAN
  BY Zenon DEF Get, TakeIncoming
<1>7. gotKey' \in [Proc -> 0 .. MaxKeys]
  <2>1. Len(typed) \in Nat /\ incoming \in 0 .. MaxKeys /\ gotKey \in [Proc -> 0 .. MaxKeys]
    BY SynchConsoleAssumption DEF ConsoleInv, ConsoleTypeOK
  <2>2. gotKey' = [gotKey EXCEPT ![p] = IF incoming = EOF THEN gotKey[p] ELSE incoming]
    BY Zenon DEF Get, Gives
  <2> QED BY <2>1, <2>2, Zenon
<1>8. ConsoleTypeOK'
  <2>1. EOF \in 0 .. Len(typed)
    BY DEF ConsoleInv, ConsoleTypeOK, EOF
  <2> QED BY <1>3, <1>5, <1>6, <1>7, <2>1, SMTT(30) DEF ConsoleInv, ConsoleTypeOK, Get, outVars
<1>9. InInv'
  BY <1>4, <1>5 DEF InInv
<1>10. OutInv'
  <2>1. UNCHANGED outVars
    BY Zenon DEF Get, outVars
  <2> QED BY <1>1, <1>3, <2>1, OutKept, Zenon
<1> QED BY <1>8, <1>9, <1>10 DEF ConsoleInv

(* The writer that gets the lock finds the display idle.                   *)
LEMMA PutLockStep == ASSUME ConsoleInv, NEW p \in Proc, PutLock(p) PROVE ConsoleInv'
<1>1. /\ at[p] = "PutLock" /\ outLock = 1 /\ outLock' = 0
      /\ GoTo(p, "Put") /\ left' = left /\ UNCHANGED inVars
      /\ UNCHANGED <<putBusy, outPending, outWait>>
  BY DEF PutLock, ConsoleInv, ConsoleTypeOK
<1>2. LeftAt(at[p]) \subseteq LeftAt("Put") /\ "Put" \in Place
  BY <1>1, Zenon DEF LeftAt, Place
<1>3. /\ at' \in [Proc -> Place] /\ left' \in [Proc -> {Line} \cup 0 .. MaxText]
      /\ \A q \in Proc : left'[q] \in LeftAt(at'[q])
      /\ at'[p] = "Put"
      /\ \A q \in Proc : q # p => at'[q] = at[q]
  BY <1>1, <1>2, MovesOnly, Zenon DEF ConsoleInv
<1>4. ConsoleTypeOK'
  BY <1>1, <1>3 DEF ConsoleInv, ConsoleTypeOK, inVars
<1>5. \A q \in Proc : at[q] \notin {"Put", "PutWait", "PutRelease"}
  BY <1>1 DEF ConsoleInv, OutInv
<1>6. ~putBusy /\ outWait = 0
  BY <1>5 DEF ConsoleInv, OutInv, ConsoleTypeOK
<1>7. OutInv'
  BY <1>1, <1>3, <1>5, <1>6, Zenon DEF ConsoleInv, OutInv
<1>8. InInv'
  BY <1>1, <1>3, InKept, SMTT(30)
<1> QED BY <1>4, <1>7, <1>8, Zenon DEF ConsoleInv

(* PutChar makes the display busy; its writer will wait.                   *)
LEMMA PutStep == ASSUME ConsoleInv, NEW p \in Proc, PutChar(p) PROVE ConsoleInv'
<1>1. /\ at[p] = "Put" /\ GoTo(p, "PutWait")
      /\ left' = [left EXCEPT ![p] = left[p] - 1] /\ UNCHANGED inVars
      /\ putBusy' = TRUE /\ outPending' = TRUE /\ UNCHANGED <<outLock, outWait>>
  BY Zenon DEF PutChar
<1>2. left[p] - 1 \in LeftAt("PutWait") /\ "PutWait" \in Place
  <2>1. left[p] \in 1 .. MaxText
    BY <1>1, Zenon DEF ConsoleInv, ConsoleTypeOK, LeftAt
  <2> QED BY <2>1, SynchConsoleAssumption DEF LeftAt, Place
<1>3. /\ at' \in [Proc -> Place] /\ left' \in [Proc -> {Line} \cup 0 .. MaxText]
      /\ \A q \in Proc : left'[q] \in LeftAt(at'[q])
      /\ at'[p] = "PutWait"
      /\ \A q \in Proc : q # p => at'[q] = at[q]
  BY <1>1, <1>2, Moves, ZenonT(30) DEF ConsoleInv
<1>4. ConsoleTypeOK'
  <2>1. putBusy' \in BOOLEAN /\ outPending' \in BOOLEAN
    BY <1>1, Zenon
  <2> QED BY <1>1, <1>3, <2>1, Zenon DEF ConsoleInv, ConsoleTypeOK, inVars
<1>5. /\ outWait = 0 /\ outLock = 0
      /\ \A q \in Proc : q # p => at'[q] \notin {"Put", "PutWait", "PutRelease"}
  BY <1>1, <1>3, Zenon DEF ConsoleInv, OutInv
<1>6. OutInv'
  BY <1>1, <1>3, <1>5 DEF OutInv
<1>7. InInv'
  BY <1>1, <1>3, InKept, SMTT(30)
<1> QED BY <1>4, <1>6, <1>7, Zenon DEF ConsoleInv

(* The writer goes on after the interrupt, not before.                     *)
LEMMA PutWaitStep == ASSUME ConsoleInv, NEW p \in Proc, PutWait(p) PROVE ConsoleInv'
<1>1. /\ at[p] = "PutWait" /\ outWait = 1 /\ outWait' = 0
      /\ GoTo(p, "PutRelease") /\ left' = left /\ UNCHANGED inVars
      /\ UNCHANGED <<putBusy, outPending, outLock>>
  BY DEF PutWait, ConsoleInv, ConsoleTypeOK
<1>2. LeftAt(at[p]) \subseteq LeftAt("PutRelease") /\ "PutRelease" \in Place
  BY <1>1, Zenon DEF LeftAt, Place
<1>3. /\ at' \in [Proc -> Place] /\ left' \in [Proc -> {Line} \cup 0 .. MaxText]
      /\ \A q \in Proc : left'[q] \in LeftAt(at'[q])
      /\ at'[p] = "PutRelease"
      /\ \A q \in Proc : q # p => at'[q] = at[q]
  BY <1>1, <1>2, MovesOnly, Zenon DEF ConsoleInv
<1>4. ConsoleTypeOK'
  BY <1>1, <1>3 DEF ConsoleInv, ConsoleTypeOK, inVars
<1>5. /\ ~putBusy /\ ~outPending /\ outLock = 0
      /\ \A q \in Proc : q # p => at'[q] \notin {"Put", "PutWait", "PutRelease"}
  BY <1>1, <1>3, Zenon DEF ConsoleInv, OutInv
<1>6. OutInv'
  BY <1>1, <1>3, <1>5 DEF OutInv
<1>7. InInv'
  BY <1>1, <1>3, InKept, SMTT(30)
<1> QED BY <1>4, <1>6, <1>7 DEF ConsoleInv

(* The lock is given back with the display idle.                           *)
LEMMA PutReleaseStep == ASSUME ConsoleInv, NEW p \in Proc, PutRelease(p) PROVE ConsoleInv'
<1> DEFINE to == IF left[p] = 0 THEN "idle" ELSE "PutLock"
<1>1. /\ at[p] = "PutRelease" /\ outLock' = outLock + 1
      /\ GoTo(p, to) /\ left' = left /\ UNCHANGED inVars
      /\ UNCHANGED <<putBusy, outPending, outWait>>
  BY Zenon DEF PutRelease
<1>2. /\ to \in Place /\ left[p] \in LeftAt(to) /\ left = [left EXCEPT ![p] = left[p]]
  <2>1. left[p] \in 0 .. MaxText /\ left = [left EXCEPT ![p] = left[p]]
    BY <1>1, Zenon DEF ConsoleInv, ConsoleTypeOK, LeftAt
  <2> QED BY <2>1, SynchConsoleAssumption DEF LeftAt, Place
<1>3. /\ at' \in [Proc -> Place] /\ left' \in [Proc -> {Line} \cup 0 .. MaxText]
      /\ \A q \in Proc : left'[q] \in LeftAt(at'[q])
      /\ at'[p] = to
      /\ \A q \in Proc : q # p => at'[q] = at[q]
  BY <1>1, <1>2, Moves, Zenon DEF ConsoleInv
<1>4. /\ outLock = 0 /\ outLock' = 1
      /\ \A q \in Proc : at'[q] \notin {"Put", "PutWait", "PutRelease"}
  BY <1>1, <1>3 DEF ConsoleInv, OutInv
<1>5. ConsoleTypeOK'
  BY <1>1, <1>3, <1>4 DEF ConsoleInv, ConsoleTypeOK, inVars
<1>6. ~putBusy /\ ~outPending /\ outWait = 0
  <2>1. \A q \in Proc : at[q] # "PutWait"
    BY <1>1, Zenon DEF ConsoleInv, OutInv
  <2> QED BY <2>1, SMTT(30) DEF ConsoleInv, OutInv, ConsoleTypeOK
<1>7. OutInv'
  <2>1. outLock' = 1 /\ ~putBusy' /\ ~outPending' /\ outWait' = 0
    BY <1>1, <1>4, <1>6, Zenon
  <2>2. \A q \in Proc : /\ at'[q] # "Put" /\ at'[q] # "PutWait"
                        /\ at'[q] \notin {"Put", "PutWait", "PutRelease"}
    BY <1>4, Zenon
  <2> HIDE DEF to
  <2> QED BY <2>1, <2>2, SMTT(30) DEF OutInv
<1>8. InInv'
  BY <1>1, <1>3, InKept, Zenon
<1> QED BY <1>5, <1>7, <1>8, Zenon DEF ConsoleInv
-----------------------------------------------------------------------------
(* The invariant holds in every state.                                     *)
THEOREM ConsoleInvariance == ConsoleSpec => []ConsoleInv
<1>1. ConsoleInv /\ [ConsoleNext]_consoleVars => ConsoleInv'
  <2> SUFFICES ASSUME ConsoleInv, [ConsoleNext]_consoleVars PROVE ConsoleInv'
    BY Zenon
  <2>1. CASE UNCHANGED consoleVars
    <3>1. ConsoleTypeOK'
      BY <2>1, Zenon DEF ConsoleInv, ConsoleTypeOK, consoleVars, inVars, outVars
    <3>2. InInv'
      BY <2>1, Zenon DEF ConsoleInv, InInv, consoleVars, inVars
    <3>3. OutInv'
      BY <2>1, Zenon DEF ConsoleInv, OutInv, consoleVars, outVars
    <3> QED BY <3>1, <3>2, <3>3, Zenon DEF ConsoleInv
  <2>2. CASE Type \/ EndInput \/ Interrupt
    BY <2>2, TypeStep, EndInputStep, ReadKeyStep, ReadEndStep, DisplayDoneStep, SMTT(30)
       DEF Interrupt
  <2>3. ASSUME NEW p \in Proc, SystemCall(p) \/ ConsoleStep(p) PROVE ConsoleInv'
    BY <2>3, SystemCallStep, GetLockStep, GetWaitStep, GetStep,
       PutLockStep, PutStep, PutWaitStep, PutReleaseStep, SMTT(30) DEF ConsoleStep
  <2> QED BY <2>1, <2>2, <2>3, Zenon DEF ConsoleNext
<1> QED BY <1>1, InitConsole, PTL DEF ConsoleSpec

-----------------------------------------------------------------------------
(* The characters after the first g of n, by number.                       *)
Rest(g, n) == [i \in 1 .. n - g |-> g + i]

(* Sequences with the same elements in the same places are equal.          *)
LEMMA SameSeq ==
    ASSUME NEW S, NEW p \in Seq(S), NEW q \in Seq(S), Len(p) = Len(q),
           \A i \in 1 .. Len(p) : p[i] = q[i]
    PROVE  p = q
OBVIOUS

(* They are a queue: one more character typed is appended to it, and the   *)
(* next one to give is its head.                                           *)
LEMMA RestIsQueue ==
    ASSUME NEW g \in Nat, NEW n \in Nat, g <= n
    PROVE  /\ Append(Rest(g, n), n + 1) = Rest(g, n + 1)
           /\ g < n => /\ Rest(g, n) # << >>
                       /\ Head(Rest(g, n)) = g + 1
                       /\ Tail(Rest(g, n)) = Rest(g + 1, n)
<1>1. Rest(g, n) \in Seq(Nat) /\ Len(Rest(g, n)) = n - g
  BY DEF Rest
<1>2. Append(Rest(g, n), n + 1) = Rest(g, n + 1)
  <2>1. /\ Append(Rest(g, n), n + 1) \in Seq(Nat)
        /\ Len(Append(Rest(g, n), n + 1)) = n + 1 - g
    BY <1>1
  <2>2. Rest(g, n + 1) \in Seq(Nat) /\ Len(Rest(g, n + 1)) = n + 1 - g
    BY DEF Rest
  <2>3. \A i \in 1 .. n + 1 - g : Append(Rest(g, n), n + 1)[i] = Rest(g, n + 1)[i]
    BY <1>1 DEF Rest
  <2> QED BY <2>1, <2>2, <2>3, SameSeq, SMTT(30)
<1>3. ASSUME g < n
      PROVE  /\ Rest(g, n) # << >>
             /\ Head(Rest(g, n)) = g + 1
             /\ Tail(Rest(g, n)) = Rest(g + 1, n)
  <2>1. Rest(g, n) # << >> /\ Head(Rest(g, n)) = g + 1
    BY <1>1, <1>3 DEF Rest
  <2>2. /\ Tail(Rest(g, n)) \in Seq(Nat)
        /\ Len(Tail(Rest(g, n))) = n - (g + 1)
    BY <1>1, <1>3, <2>1
  <2>3. Rest(g + 1, n) \in Seq(Nat) /\ Len(Rest(g + 1, n)) = n - (g + 1)
    BY <1>3 DEF Rest
  <2>4. \A i \in 1 .. n - (g + 1) : Tail(Rest(g, n))[i] = Rest(g + 1, n)[i]
    BY <1>1, <1>3, <2>1 DEF Rest
  <2> QED BY <2>1, <2>2, <2>3, <2>4, SameSeq, ZenonT(30)
<1> QED BY <1>2, <1>3, Zenon

(* A character is in the device from CallBack to GetChar; the ones before  *)
(* it have been given to a process.                                        *)
LEMMA GivenOf ==
    ASSUME ConsoleInv
    PROVE  /\ Len(typed) \in Nat /\ Given \in Nat /\ Given <= Len(typed)
           /\ incoming = EOF => Given = taken
           /\ incoming # EOF => Given = incoming - 1 /\ Given < Len(typed) /\ taken = incoming
<1>1. Len(typed) \in Nat /\ taken \in 0 .. Len(typed) /\ incoming \in 0 .. Len(typed)
  BY DEF ConsoleInv, ConsoleTypeOK
<1>2. incoming # EOF => incoming = taken
  BY Zenon DEF ConsoleInv, InInv
<1> QED BY <1>1, <1>2 DEF Given, Ones, EOF

(* Where no character is the byte 255, the processes that read the console *)
(* get what is typed, each character once and in order.                    *)
THEOREM KeysAreReadInOrder == ASSUME "ff" \notin Key PROVE ConsoleSpec => ReadsInOrder
<1>1. ConsoleInit => KeyChannel!Init
  <2> SUFFICES ASSUME ConsoleInit PROVE KeyChannel!Init
    BY Zenon
  <2>1. Len(typed) = 0 /\ Given = 0
    BY DEF ConsoleInit, Given, Ones, EOF
  <2>2. [i \in 1 .. Len(typed) - Given |-> Given + i] = << >>
    BY <2>1
  <2> QED BY <2>1, <2>2, Zenon DEF ConsoleInit, KeyChannel!Init
<1>2. ConsoleInv /\ ConsoleInv' /\ [ConsoleNext]_consoleVars => [KeyChannel!Next]_KeyChannel!chanVars
  <2> SUFFICES ASSUME ConsoleInv, ConsoleInv', [ConsoleNext]_consoleVars PROVE [KeyChannel!Next]_KeyChannel!chanVars
    BY Zenon
  <2> DEFINE Stays == Len(typed)' = Len(typed) /\ Given' = Given /\ gotKey' = gotKey
  <2>1. ASSUME Stays PROVE KeyChannel!chanVars' = KeyChannel!chanVars
    BY <2>1, Zenon DEF KeyChannel!chanVars
  <2>2. CASE UNCHANGED <<typed, taken, incoming, gotKey>>
    BY <2>1, <2>2, Zenon DEF Given
  <2>3. CASE Type
    <3>1. PICK k \in Key : typed' = Append(typed, k)
      BY <2>3, Zenon DEF Type
    <3>2. Len(typed') = Len(typed) + 1
      BY <3>1 DEF ConsoleInv, ConsoleTypeOK
    <3>3. Given' = Given /\ gotKey' = gotKey
      BY <2>3, Zenon DEF Type, Given
    <3>4. Rest(Given, Len(typed) + 1) = Append(Rest(Given, Len(typed)), Len(typed) + 1)
      BY GivenOf, RestIsQueue, SMTT(30)
    <3>5. KeyChannel!Put
      BY <3>2, <3>3, <3>4, Zenon DEF KeyChannel!Put, Rest
    <3> QED BY <3>5, Zenon DEF KeyChannel!Next
  <2>4. CASE ReadKey
    <3>1. inPending /\ incoming = EOF
      BY <2>4, Zenon DEF ReadKey, ConsoleInv, InInv
    <3>2. taken + 1 \in 1 .. Len(typed) /\ typed[taken + 1] # "ff"
      BY <2>4 DEF ReadKey, ConsoleInv, ConsoleTypeOK
    <3>3. incoming' = taken + 1 /\ incoming' # EOF
      BY <2>4, <3>2 DEF ReadKey, EOF
    <3>4. Given = taken
      BY <3>1, GivenOf, Zenon
    <3>5. taken \in Nat /\ taken' = taken + 1
      BY <2>4 DEF ReadKey, ConsoleInv, ConsoleTypeOK
    <3>6. Given' = taken' - 1
      BY <3>3, Zenon DEF Given, Ones
    <3>7. Given' = Given
      BY <3>4, <3>5, <3>6
    <3> QED BY <2>1, <2>4, <3>7, Zenon DEF ReadKey
  <2>5. ASSUME NEW p \in Proc, Get(p) PROVE [KeyChannel!Next]_KeyChannel!chanVars
    <3>1. typed' = typed /\ taken' = taken /\ incoming' = EOF
      BY <2>5, Zenon DEF Get, TakeIncoming
    <3>2. taken \in Nat /\ Given' = taken
      BY <3>1 DEF Given, Ones, ConsoleInv, ConsoleTypeOK
    <3>3. CASE incoming = EOF
      <4>1. Given = taken
        BY <3>3, GivenOf, SMTT(30)
      <4>2. gotKey' = gotKey
        BY <2>5, <3>3, Zenon DEF Get, Gives, ConsoleInv, ConsoleTypeOK
      <4> QED BY <2>1, <3>1, <3>2, <4>1, <4>2, Zenon
    <3>4. CASE incoming # EOF
      <4>1. /\ Len(typed) \in Nat /\ Given \in Nat /\ Given < Len(typed)
            /\ incoming = Given + 1 /\ Given' = Given + 1
        BY <3>2, <3>4, GivenOf
      <4>2. gotKey' = [gotKey EXCEPT ![p] = incoming]
        BY <2>5, <3>4, Zenon DEF Get, Gives
      <4>3. /\ Rest(Given, Len(typed)) # << >>
            /\ Head(Rest(Given, Len(typed))) = Given + 1
            /\ Tail(Rest(Given, Len(typed))) = Rest(Given + 1, Len(typed))
        <5>1. Given <= Len(typed)
          BY <4>1
        <5> QED BY <4>1, <5>1, RestIsQueue, Zenon
      <4>4. KeyChannel!Get(p)
        BY <3>1, <4>1, <4>2, <4>3, ZenonT(30) DEF KeyChannel!Get, Rest
      <4> QED BY <4>4, Zenon DEF KeyChannel!Next
    <3> QED BY <3>3, <3>4, Zenon
  <2>6. ASSUME NEW p \in Proc, SystemCall(p) \/ (ConsoleStep(p) /\ ~Get(p))
        PROVE  UNCHANGED <<typed, taken, incoming, gotKey>>
    BY <2>6, Zenon DEF SystemCall, ConsoleStep, GetLock, GetWait, PutLock, PutChar, PutWait, PutRelease, inVars
  <2>7. EndInput \/ ReadEnd \/ DisplayDone \/ UNCHANGED consoleVars
        => UNCHANGED <<typed, taken, incoming, gotKey>>
    BY Zenon DEF EndInput, ReadEnd, DisplayDone, consoleVars, inVars
  <2> QED BY <2>2, <2>3, <2>4, <2>5, <2>6, <2>7, SMTT(30) DEF ConsoleNext, Interrupt
<1> QED BY <1>1, <1>2, ConsoleInvariance, PTL DEF ConsoleSpec, ReadsInOrder, KeyChannel!Spec
-----------------------------------------------------------------------------
(* The facts about cardinalities are needed, and visible, from here on.    *)
INSTANCE FiniteSetTheorems

(* MutualExclusion, for any number of threads: one thread at a time is     *)
(* between Acquire and Release, and the ASSERTs on the holder hold.        *)
THEOREM LockExcludes == Spec => []MutualExclusion
<1>1. IInv => MutualExclusion
  <2> SUFFICES ASSUME IInv PROVE Cardinality(Inside) + lock = 1
    BY Zenon DEF IInv, Exclusive, MutualExclusion
  <2>1. CASE lock = 1 /\ Inside = {}
    BY <2>1, FS_EmptySet
  <2>2. CASE lock = 0 /\ \E t \in Thread : Inside = {t}
    BY <2>2, FS_Singleton
  <2> QED BY <2>1, <2>2, Zenon DEF IInv, Exclusive
<1> QED BY <1>1, Invariance, PTL

(* Enough threads are signalled: with IInv, this is NoLostSignal.          *)
Matched == waitQueue # << >> => Len(list) <= Cardinality(Signalled)

(* There are finitely many signalled threads.                              *)
LEMMA SignalledFinite ==
    IsFiniteSet(Signalled) /\ Cardinality(Signalled) \in Nat
<1>1. Signalled \subseteq Thread
  BY Zenon DEF Signalled
<1>2. IsFiniteSet(Signalled)
  BY <1>1, FS_Subset, SynchListAssumption, Zenon
<1> QED BY <1>2, FS_CardinalityType, Zenon

(* A step keeps Matched when it adds nothing to the list and takes nobody  *)
(* out of Signalled.                                                       *)
LEMMA MatchedKept ==
    ASSUME IInv, Matched, waitQueue' = waitQueue, Signalled' = Signalled,
           list' = list
    PROVE  Matched'
BY Zenon DEF Matched

(* Signal adds the woken thread where Append adds an item.                 *)
LEMMA SignalMatched ==
    ASSUME NEW t \in Thread, IInv, Matched, AppendSignal(t)
    PROVE  Matched'
<1>1. PICK h \in Thread :
              /\ h = Head(waitQueue) /\ h # t
              /\ pc[h] = "WaitP" /\ waiter[h] = 0
              /\ waiter' = [waiter EXCEPT ![h] = 1]
              /\ waitQueue' \in Seq(Thread)
              /\ Elems(waitQueue') = Elems(waitQueue) \ {h}
              /\ NoDuplicates(waitQueue')
  BY Woken, Zenon
<1>2. /\ pc[t] = "Append" /\ pc' = [pc EXCEPT ![t] = "Release"]
      /\ waitQueue # << >> /\ Len(list') = Len(list) + 1
  BY PutType, Zenon DEF AppendSignal, Go
<1>3. /\ pc'[t] = "Release" /\ waiter'[h] = 1 /\ pc'[h] = "WaitP"
      /\ \A u \in Thread : u # t => pc'[u] = pc[u]
      /\ \A u \in Thread : u # h => waiter'[u] = waiter[u]
  BY <1>1, <1>2, Zenon DEF IInv, TypeOK
<1>4. Signalled' = Signalled \cup {h} /\ h \notin Signalled
  BY <1>1, <1>2, <1>3 DEF Signalled
<1>5. Cardinality(Signalled') = Cardinality(Signalled) + 1
  BY <1>4, SignalledFinite, FS_AddElement, Zenon
<1>6. Len(list) \in Nat /\ Len(list) <= Cardinality(Signalled)
  BY <1>2 DEF Matched, IInv, TypeOK
<1> QED BY <1>2, <1>5, <1>6, SignalledFinite DEF Matched

(* A thread that takes an item may be a signalled one.                     *)
LEMMA TakeMatched ==
    ASSUME NEW t \in Thread, IInv, Matched, Take(t)
    PROVE  Matched'
<1>1. /\ pc[t] = "Remove" /\ pc' = [pc EXCEPT ![t] = "idle"]
      /\ waiter' = [waiter EXCEPT ![t] = NoWaiter]
      /\ waitQueue' = waitQueue
      /\ list \in Seq(Nat) /\ list # << >> /\ list' = Tail(list)
  BY Zenon DEF Take, Go, IInv, TypeOK
<1>2. Len(list') = Len(list) - 1 /\ Len(list) \in Nat
  BY <1>1
<1>3. /\ pc'[t] = "idle"
      /\ \A u \in Thread : u # t => pc'[u] = pc[u] /\ waiter'[u] = waiter[u]
  BY <1>1, Zenon DEF IInv, TypeOK
<1>4. Signalled' = Signalled \ {t}
  BY <1>1, <1>3 DEF Signalled
<1>5. Cardinality(Signalled \ {t})
         = IF t \in Signalled THEN Cardinality(Signalled) - 1 ELSE Cardinality(Signalled)
  BY SignalledFinite, FS_RemoveElement, Zenon
<1>6. waitQueue # << >> => Len(list) <= Cardinality(Signalled)
  BY DEF Matched
<1>7. waitQueue # << >> => Len(list') <= Cardinality(Signalled \ {t})
  BY <1>2, <1>5, <1>6, SignalledFinite
<1> QED BY <1>1, <1>4, <1>7, Zenon DEF Matched

(* The other steps leave the signalled threads, or the wait queue is       *)
(* empty, or the list is.                                                  *)
LEMMA OtherMatched ==
    ASSUME NEW t \in Thread, IInv, Matched,
           \/ Call(t) \/ AcquireP(t) \/ AppendRelease(t) \/ AppendEnds(t)
           \/ Wait(t) \/ WaitP(t) \/ ApplyAll(t)
    PROVE  Matched'
<1>1. CASE AppendRelease(t)
  BY <1>1, Zenon DEF AppendRelease, Matched
<1>2. CASE Wait(t)
  <2>1. list' = << >>
    BY <1>2, Zenon DEF Wait, data
  <2>2. Signalled' \subseteq Thread
    BY Zenon DEF Signalled
  <2>3. Cardinality(Signalled') \in Nat
    BY <2>2, SynchListAssumption, FS_Subset, FS_CardinalityType, Zenon
  <2> QED BY <2>1, <2>3 DEF Matched
<1>3. CASE WaitP(t)
  <2>1. /\ pc[t] = "WaitP" /\ waiter[t] = 1
        /\ pc' = [pc EXCEPT ![t] = "AcquireP"]
        /\ waiter' = [waiter EXCEPT ![t] = 0]
        /\ waitQueue' = waitQueue /\ list' = list
    BY <1>3, Zenon DEF WaitP, Go, data
  <2>2. /\ pc'[t] = "AcquireP"
        /\ \A u \in Thread : u # t => pc'[u] = pc[u] /\ waiter'[u] = waiter[u]
    BY <2>1, Zenon DEF IInv, TypeOK
  <2>3. Signalled' = Signalled
    BY <2>1, <2>2 DEF Signalled
  <2> QED BY <2>1, <2>3, MatchedKept, Zenon
<1>4. CASE Call(t) \/ AppendEnds(t) \/ ApplyAll(t) \/ AcquireP(t)
  <2>1. PICK p \in PC \ {"WaitP", "AcquireP"} :
           /\ pc' = [pc EXCEPT ![t] = p]
           /\ \/ pc[t] \in {"idle", "Release", "Apply", "AppendP", "RemoveP", "ApplyP"}
              \/ pc[t] = "AcquireP" /\ p = "Remove"
    BY <1>4, Zenon DEF Call, AppendEnds, ApplyAll, AcquireP, Go, PC
  <2>2. waiter' = waiter /\ waitQueue' = waitQueue /\ list' = list
    BY <1>4, Zenon DEF Call, AppendEnds, ApplyAll, AcquireP, data
  <2>3. /\ pc'[t] = p
        /\ \A u \in Thread : u # t => pc'[u] = pc[u]
    BY <2>1, Zenon DEF IInv, TypeOK
  <2>4. /\ pc[t] = "AcquireP" => waiter[t] = 0
        /\ pc[t] # "AcquireP" => waiter[t] = NoWaiter
    BY <2>1, Zenon DEF IInv, TypeOK, Waiters
  <2>5. t \in Signalled' <=> t \in Signalled
    BY <2>1, <2>2, <2>3, <2>4 DEF Signalled, NoWaiter
  <2>6. Signalled' = Signalled
    BY <2>2, <2>3, <2>5, Zenon DEF Signalled
  <2> QED BY <2>2, <2>6, MatchedKept, Zenon
<1> QED BY <1>1, <1>2, <1>3, <1>4, Zenon

(* NoLostSignal, for any number of threads: while threads wait, every item *)
(* of the list is matched by a signalled thread that has still to look.    *)
THEOREM SignalsAreNotLost == Spec => []NoLostSignal
<1>1. Init => Matched
  BY Zenon DEF Init, Matched
<1>2. IInv /\ Matched /\ [Next]_vars => Matched'
  <2> SUFFICES ASSUME IInv, Matched, [Next]_vars PROVE Matched'
    BY Zenon
  <2>1. ASSUME NEW t \in Thread, Call(t) \/ Step(t) PROVE Matched'
    BY <2>1, SignalMatched, TakeMatched, OtherMatched, Zenon DEF Step
  <2>2. CASE UNCHANGED vars
    BY <2>2, Zenon DEF vars, Matched, Signalled
  <2> QED BY <2>1, <2>2, Zenon DEF Next
<1>3. IInv /\ Matched => NoLostSignal
  BY Zenon DEF IInv, Matched, NoLostSignal
<1> QED BY <1>1, <1>2, <1>3, Invariance, PTL DEF Spec
-----------------------------------------------------------------------------
(* Sets of at most one process.                                            *)
LEMMA CountNone == ASSUME NEW A, \A p \in A : FALSE PROVE Cardinality(A) = 0
<1>1. A = {}
  BY Zenon
<1> QED BY <1>1, FS_EmptySet, Zenon

(* One process.                                                            *)
LEMMA CountOne ==
    ASSUME NEW A, NEW p \in A, \A q \in A : q = p
    PROVE  Cardinality(A) = 1
<1>1. A = {p}
  BY Zenon
<1> QED BY <1>1, FS_Singleton, Zenon

(* The asserts of ConsoleInput::CallBack and ConsoleOutput::PutChar hold,  *)
(* whatever processes read and print and whenever the interrupts come.     *)
THEOREM DevicesServeOneAtATime == ConsoleSpec => []OneAtATime
<1>1. ConsoleInv => OneAtATime
  <2> SUFFICES ASSUME ConsoleInv PROVE OneAtATime
    OBVIOUS
  <2>1. OneKeyAtATime
    <3> DEFINE A == At({"Get"})
    <3>1. CASE A = {}
      <4>1. Cardinality(A) = 0
        BY <3>1, CountNone, Zenon
      <4>2. \A p \in Proc : at[p] # "Get"
        BY <3>1, Zenon DEF At
      <4>3. Ones(inPending) + inWait <= 1 /\ Ones(inPending) \in 0 .. 1 /\ inWait \in 0 .. 1
        BY DEF ConsoleInv, InInv, ConsoleTypeOK, Ones
      <4>4. incoming # EOF => inWait = 1
        BY <4>2, Zenon DEF ConsoleInv, InInv
      <4> HIDE DEF A
      <4> QED BY <4>1, <4>3, <4>4 DEF OneKeyAtATime, ConsoleInv, InInv, A
    <3>2. ASSUME NEW p \in A PROVE OneKeyAtATime
      <4>1. p \in Proc /\ at[p] = "Get" /\ \A q \in A : q = p
        BY <3>2, Zenon DEF At, ConsoleInv, InInv
      <4>2. Cardinality(A) = 1
        BY <3>2, <4>1, CountOne, Zenon
      <4>3. ~inPending /\ inWait = 0
        BY <4>1, Zenon DEF ConsoleInv, InInv
      <4>4. Ones(inPending) = 0
        BY <4>3, Zenon DEF Ones
      <4> QED BY <4>2, <4>3, <4>4 DEF OneKeyAtATime
    <3> QED BY <3>1, <3>2, Zenon
  <2>2. OneCharAtATime
    <3> DEFINE D == At({"Put", "PutWait", "PutRelease"})
               W == At({"PutWait"})
    <3>1. outLock + Cardinality(D) = 1
      <4>1. CASE D = {}
        <5>1. Cardinality(D) = 0
          BY <4>1, CountNone, Zenon
        <5>2. outLock = 1
          BY <4>1 DEF At, ConsoleInv, OutInv, ConsoleTypeOK
        <5> QED BY <5>1, <5>2
      <4>2. ASSUME NEW p \in D PROVE outLock + Cardinality(D) = 1
        <5>1. outLock = 0 /\ \A q \in D : q = p
          BY <4>2, Zenon DEF At, ConsoleInv, OutInv
        <5>2. Cardinality(D) = 1
          BY <4>2, <5>1, CountOne, Zenon
        <5> QED BY <5>1, <5>2
      <4> QED BY <4>1, <4>2, Zenon
    <3>2. At({"Put"}) # {} => ~putBusy /\ ~outPending /\ outWait = 0
      BY Zenon DEF At, ConsoleInv, OutInv
    <3>3. Cardinality(W) = Ones(putBusy) + outWait
      <4>0. outWait \in 0 .. 1
        BY Zenon DEF ConsoleInv, ConsoleTypeOK
      <4>1. CASE W = {}
        <5>1. Cardinality(W) = 0
          BY <4>1, CountNone, Zenon
        <5>2. ~putBusy /\ outWait = 0
          BY <4>0, <4>1 DEF At, ConsoleInv, OutInv
        <5>3. Ones(putBusy) = 0
          BY <5>2, Zenon DEF Ones
        <5> QED BY <5>1, <5>2, <5>3
      <4>2. ASSUME NEW p \in W PROVE Cardinality(W) = Ones(putBusy) + outWait
        <5>1. \A q \in W : q = p
          BY <4>2, Zenon DEF At, ConsoleInv, OutInv
        <5>2. Cardinality(W) = 1
          BY <4>2, <5>1, CountOne, Zenon
        <5>3. (putBusy /\ outWait = 0) \/ (~putBusy /\ outWait = 1)
          BY <4>0, <4>2 DEF At, ConsoleInv, OutInv
        <5>4. Ones(putBusy) + outWait = 1
          BY <5>3 DEF Ones
        <5> QED BY <5>2, <5>4, Zenon
      <4> QED BY <4>1, <4>2, Zenon
    <3> QED BY <3>1, <3>2, <3>3, Zenon DEF OneCharAtATime
  <2> QED BY <2>1, <2>2, Zenon DEF ConsoleInv, OneAtATime
<1> QED BY <1>1, ConsoleInvariance, PTL
=============================================================================
