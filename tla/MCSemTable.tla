---------------------------- MODULE MCSemTable ------------------------------
(* The instance of SemTable for TLC: the initial values.                   *)
EXTENDS SemTable

Legal == 0..1
=============================================================================
