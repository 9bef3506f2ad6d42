---------------------------- MODULE MCInterrupt -----------------------------
(* Instances of Interrupt for TLC.                                         *)
EXTENDS Interrupt

\* The timer in random mode: any delay up to twice its period.
Delays == [d \in AllDevices |-> IF d = Timer THEN 1 .. 4 ELSE {3}]
=============================================================================
