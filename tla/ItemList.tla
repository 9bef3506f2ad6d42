------------------------------ MODULE ItemList ------------------------------
(***************************************************************************)
(* What classes List and SortedList of lib/list.h promise: a sequence of   *)
(* different items, which SortedList keeps "in increasing order".          *)
(***************************************************************************)
EXTENDS Integers, Sequences

CONSTANTS Item,     \* the items
          Key,      \* Key[x]: what "compare" looks at
          NULL

VARIABLES sorted,   \* a SortedList, where Append and Prepend are Insert
          items,    \* the sequence
          removed   \* the item that RemoveFront or Remove took last

listVars == <<sorted, items, removed>>

Init == sorted \in BOOLEAN /\ items = << >> /\ removed = NULL

New(x) == \A i \in 1 .. Len(items) : items[i] # x

Append_(x) ==
    /\ ~sorted /\ New(x)
    /\ items' = Append(items, x)
    /\ UNCHANGED <<sorted, removed>>

Prepend(x) ==
    /\ ~sorted /\ New(x)
    /\ items' = <<x>> \o items
    /\ UNCHANGED <<sorted, removed>>

(* Equal keys stay in the order of their insertion.                        *)
Insert(x) ==
    /\ sorted /\ New(x)
    /\ \E k \in 0 .. Len(items) :
          /\ \A i \in 1 .. k : Key[items[i]] <= Key[x]
          /\ \A i \in k + 1 .. Len(items) : Key[items[i]] > Key[x]
          /\ items' = SubSeq(items, 1, k) \o <<x>> \o SubSeq(items, k + 1, Len(items))
    /\ UNCHANGED <<sorted, removed>>

RemoveFront ==
    /\ items # << >>
    /\ items' = Tail(items)
    /\ removed' = Head(items)
    /\ UNCHANGED sorted

Remove(x) ==
    /\ \E k \in 1 .. Len(items) :
          /\ items[k] = x
          /\ items' = SubSeq(items, 1, k - 1) \o SubSeq(items, k + 1, Len(items))
    /\ removed' = x
    /\ UNCHANGED sorted

Next ==
    \/ RemoveFront
    \/ \E x \in Item : Append_(x) \/ Prepend(x) \/ Insert(x) \/ Remove(x)

Spec == Init /\ [][Next]_listVars
=============================================================================
