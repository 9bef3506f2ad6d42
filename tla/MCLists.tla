------------------------------ MODULE MCLists -------------------------------
(***************************************************************************)
(* The containers of the kernel for TLC.  A behaviour is one of three      *)
(* parts: the monitor list of module SynchList, a List or SortedList, or a *)
(* HashTable; the variables of the other two keep their initial values.    *)
(***************************************************************************)
EXTENDS SynchList, LinkedList

VARIABLES part,
          buckets, numItems, result, iter, seen

(* Four items for the lists, two pairs with equal keys.                    *)
Items == 1 .. 4
Halves == [x \in Items |-> (x + 1) \div 2]

(* Six items for the table, two with the same key; the constants of        *)
(* hash.cc are smaller, so that five items lead to ReHash three times.     *)
Keys == <<0, 1, 2, 5, 6, 1>>
HashInt(k) == k
HT == INSTANCE HashTable WITH
          Item <- 1 .. 6, Key <- Keys, Hash <- HashInt,
          InitialBuckets <- 1, ResizeRatio <- 1, IncreaseSizeBy <- 2

tableVars == <<buckets, numItems, result, iter, seen>>
allVars == <<vars, part, listVars, tableVars>>

PartInit ==
    /\ part \in {"monitor", "list", "table"}
    /\ Init /\ ListInit /\ HT!Init
    /\ sorted => part = "list"

MonitorStep(t) == part = "monitor" /\ Step(t) /\ UNCHANGED <<part, listVars, tableVars>>

PartNext ==
    \/ /\ part = "monitor" /\ (\E t \in Thread : Call(t))
       /\ UNCHANGED <<part, listVars, tableVars>>
    \/ \E t \in Thread : MonitorStep(t)
    \/ part = "list" /\ ListNext /\ UNCHANGED <<part, vars, tableVars>>
    \/ part = "table" /\ HT!Next /\ UNCHANGED <<part, vars, listVars>>

PartSpec ==
    PartInit /\ [][PartNext]_allVars /\ \A t \in Thread : WF_allVars(MonitorStep(t))

(* The table is a map: see HashTable.                                      *)
TableIsMap == HT!ImplementsKeyMap
=============================================================================
