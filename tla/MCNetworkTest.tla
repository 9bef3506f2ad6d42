---------------------------- MODULE MCNetworkTest ----------------------------
(* The instance of NetworkTest for TLC: machines 0 and 1.                  *)
EXTENDS NetworkTest

TwoHosts == {0, 1}
Other == [h \in TwoHosts |-> 1 - h]
=============================================================================
