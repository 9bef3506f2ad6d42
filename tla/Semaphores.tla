----------------------------- MODULE Semaphores -----------------------------
(***************************************************************************)
(* What class Semaphore promises its users (threads/synch.h): a            *)
(* non-negative counter with two atomic operations.  "P() -- waits until   *)
(* value > 0, then decrement"; "V() -- increment, waking up a thread       *)
(* waiting in P() if necessary".  Queues, wake-ups, the ready list and the *)
(* context switch are hidden: a client is in P() on a semaphore, or it is  *)
(* not.  Threads.tla implements this specification; the modules of the     *)
(* kernel's clients use P and V with this meaning.                         *)
(***************************************************************************)
EXTENDS Integers

CONSTANTS Thread,      \* the clients
          Sem,         \* the semaphores
          InitValue,   \* InitValue[s]: the constructor's initialValue
          NULL         \* "in no P()"

VARIABLES value,       \* Semaphore::value
          waitOn       \* waitOn[t]: the semaphore t is in P() on, or NULL

semVars == <<value, waitOn>>

Init ==
    /\ value = InitValue
    /\ waitOn = [t \in Thread |-> NULL]

(* P() returns: the value was positive and is consumed.                    *)
Take(t, s) ==
    /\ waitOn[t] \in {NULL, s}
    /\ value[s] > 0
    /\ value' = [value EXCEPT ![s] = @ - 1]
    /\ waitOn' = [waitOn EXCEPT ![t] = NULL]

(* P() finds the value zero: its caller waits.                             *)
Wait(t, s) ==
    /\ waitOn[t] = NULL
    /\ value[s] = 0
    /\ waitOn' = [waitOn EXCEPT ![t] = s]
    /\ UNCHANGED value

(* V(), from a thread or from an interrupt handler.                        *)
Release(s) ==
    /\ value' = [value EXCEPT ![s] = @ + 1]
    /\ UNCHANGED waitOn

Next == \E s \in Sem :
            \/ Release(s)
            \/ \E t \in Thread : Take(t, s) \/ Wait(t, s)

Spec == Init /\ [][Next]_semVars
=============================================================================
