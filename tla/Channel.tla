------------------------------ MODULE Channel -------------------------------
(***************************************************************************)
(* What class SynchList promises (threads/synchlist.h): "Threads trying to *)
(* remove an item from a list will wait until the list has an element on   *)
(* it", and items leave the list in the order in which they were appended, *)
(* each to one thread.  The items are numbered in that order.              *)
(***************************************************************************)
EXTENDS Naturals, Sequences

CONSTANTS Thread

VARIABLES list,   \* the items
          sent,   \* the number of items put so far
          item    \* item[t]: the item t got last; 0: none

chanVars == <<list, sent, item>>

Init ==
    /\ list = << >>
    /\ sent = 0
    /\ item = [t \in Thread |-> 0]

Put ==
    /\ sent' = sent + 1
    /\ list' = Append(list, sent + 1)
    /\ UNCHANGED item

Get(t) ==
    /\ list # << >>
    /\ item' = [item EXCEPT ![t] = Head(list)]
    /\ list' = Tail(list)
    /\ UNCHANGED sent

Next == Put \/ \E t \in Thread : Get(t)

Spec == Init /\ [][Next]_chanVars
=============================================================================
