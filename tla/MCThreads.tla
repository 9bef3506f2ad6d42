----------------------------- MODULE MCThreads ------------------------------
(* Instance of Threads for TLC: a semaphore used as a lock (initially 1)   *)
(* and a device semaphore (initially 0).                                   *)
EXTENDS Threads

CONSTANTS lock, dev

MCInitValue == [s \in Sem |-> IF s = lock THEN 1 ELSE 0]
=============================================================================
