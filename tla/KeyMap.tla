------------------------------- MODULE KeyMap -------------------------------
(***************************************************************************)
(* What class HashTable of lib/hash.h promises: "quick lookup" of items by *)
(* their keys, which are unique in the table, and an iterator that steps   *)
(* "through every entry".                                                  *)
(***************************************************************************)
CONSTANTS Item, Key,   \* getKey(x) is Key[x]
          NULL

VARIABLES items,       \* the items in the table
          result,      \* what the last Find or Remove returned
          iterating, seen

mapVars == <<items, result, iterating, seen>>

Init == items = {} /\ result = NULL /\ iterating = FALSE /\ seen = {}

Has(k) == \E x \in items : Key[x] = k

Insert(x) ==
    /\ ~Has(Key[x])
    /\ items' = items \cup {x}
    /\ UNCHANGED <<result, iterating, seen>>

Remove(k) ==
    \E x \in items : /\ Key[x] = k
                     /\ items' = items \ {x} /\ result' = x
                     /\ UNCHANGED <<iterating, seen>>

Find(k) ==
    /\ \/ ~Has(k) /\ result' = NULL
       \/ \E x \in items : Key[x] = k /\ result' = x
    /\ UNCHANGED <<items, iterating, seen>>

Start ==
    /\ ~iterating /\ iterating' = TRUE /\ seen' = {}
    /\ UNCHANGED <<items, result>>

Visit ==
    /\ iterating
    /\ \E x \in items \ seen : seen' = seen \cup {x}
    /\ UNCHANGED <<items, result, iterating>>

End ==
    /\ iterating /\ seen = items
    /\ iterating' = FALSE /\ seen' = {}
    /\ UNCHANGED <<items, result>>

Next ==
    \/ \E x \in Item : Insert(x)
    \/ \E k \in {Key[x] : x \in Item} : Remove(k) \/ Find(k)
    \/ Start \/ Visit \/ End

Spec == Init /\ [][Next]_mapVars
=============================================================================
