----------------------------- MODULE LinkedList -----------------------------
(***************************************************************************)
(* Classes List and SortedList of lib/list.cc: linked elements with a      *)
(* first and a last pointer and a count.  Every queue of the kernel is one *)
(* of them, and the other modules take them for the sequences of module    *)
(* ItemList.  An operation asserts that an item is not twice in a list, so *)
(* a list element is named by its item; next[x] of a deleted element keeps *)
(* its last value.                                                         *)
(***************************************************************************)
EXTENDS Integers, Sequences, FiniteSets

CONSTANTS Item,
          Key,          \* Key[x]: what "compare" looks at
          Nil           \* the pointer NULL

ASSUME ListAssumption ==
    IsFiniteSet(Item) /\ Nil \notin Item /\ Key \in [Item -> Int]

VARIABLES sorted,       \* a SortedList
          first, last,  \* pointers to elements
          next,         \* next[x]: ListElement::next of x's element
          numInList,
          removed       \* the item that RemoveFront or Remove took last

listVars == <<sorted, first, last, next, numInList, removed>>

(* List::List and SortedList::SortedList.                                  *)
ListInit ==
    /\ sorted \in BOOLEAN
    /\ first = Nil /\ last = Nil
    /\ next = [x \in Item |-> Nil]
    /\ numInList = 0
    /\ removed = Nil

(* Definitions named Wrong... are plausible mistakes in the definition that *)
(* follows them; they are used only to show that the properties below      *)
(* notice them.                                                            *)

IsEmpty == numInList = 0

(* The items that one meets from f along the pointers nx; the loops of     *)
(* IsInList, Apply and ListIterator go on until they meet NULL.            *)
Path(f, nx) ==
    LET nth[i \in 1 .. Cardinality(Item)] ==
          IF i = 1 THEN f ELSE IF nth[i - 1] = Nil THEN Nil ELSE nx[nth[i - 1]]
        met == {i \in 1 .. Cardinality(Item) : nth[i] # Nil}
    IN  [i \in 1 .. Cardinality(met) |-> nth[i]]

Walk == Path(first, next)

(* List::IsInList.                                                         *)
IsInList(x) == \E i \in DOMAIN Walk : Walk[i] = x

Alone(x) ==
    /\ first' = x /\ last' = x
    /\ next' = [next EXCEPT ![x] = Nil]

AtEnd(x) ==
    /\ next' = [next EXCEPT ![x] = Nil, ![last] = x]
    /\ last' = x
    /\ UNCHANGED first

InFront(x) ==
    /\ next' = [next EXCEPT ![x] = first]
    /\ first' = x
    /\ UNCHANGED last

(* What every operation that adds x does besides.                          *)
Adding(x) ==
    /\ ~IsInList(x)
    /\ numInList' = numInList + 1
    /\ UNCHANGED <<sorted, removed>>

(* List::Append.                                                           *)
Append_(x) ==
    /\ ~sorted /\ Adding(x)
    /\ IF IsEmpty THEN Alone(x) ELSE AtEnd(x)

(* List::Prepend.                                                          *)
Prepend(x) ==
    /\ ~sorted /\ Adding(x)
    /\ IF IsEmpty THEN Alone(x) ELSE InFront(x)

Less(x, y) == Key[x] < Key[y]

(* Insert that puts an item before its equals.                             *)
WrongSuccessors(x) == {i \in 2 .. Len(Walk) : ~Less(Walk[i], x)}

(* The places, after the first, of the elements that are bigger than x.    *)
Successors(x) == {i \in 2 .. Len(Walk) : Less(x, Walk[i])}

(* SortedList::Insert, which is also Append and Prepend of a SortedList:   *)
(* the loop stops before the first element that is bigger than x.          *)
Insert(x) ==
    /\ sorted /\ Adding(x)
    /\ \/ IsEmpty /\ Alone(x)
       \/ ~IsEmpty /\ Less(x, first) /\ InFront(x)
       \/ /\ ~IsEmpty /\ ~Less(x, first) /\ Successors(x) # {}
          /\ \E i \in Successors(x) :
                /\ \A j \in Successors(x) : i <= j
                /\ LET ptr == Walk[i - 1]
                   IN  next' = [next EXCEPT ![x] = next[ptr], ![ptr] = x]
          /\ UNCHANGED <<first, last>>
       \/ ~IsEmpty /\ ~Less(x, first) /\ Successors(x) = {} /\ AtEnd(x)

(* RemoveFront.                                                            *)
DropFirst ==
    /\ \/ first = last /\ first' = Nil /\ last' = Nil
       \/ first # last /\ first' = next[first] /\ UNCHANGED last
    /\ UNCHANGED next

(* List::RemoveFront; the list must not be empty.                          *)
RemoveFront ==
    /\ ~IsEmpty
    /\ DropFirst
    /\ numInList' = numInList - 1
    /\ removed' = first
    /\ UNCHANGED sorted

(* Remove that forgets that the last element may be the one removed.       *)
WrongUnlink(x) ==
    \E i \in 2 .. Len(Walk) :
        /\ Walk[i] = x
        /\ next' = [next EXCEPT ![Walk[i - 1]] = next[x]]
        /\ UNCHANGED <<first, last>>

(* The loop of List::Remove: prev is the element before x.                 *)
Unlink(x) ==
    \E i \in 2 .. Len(Walk) :
        LET prev == Walk[i - 1] IN
        /\ Walk[i] = x
        /\ next' = [next EXCEPT ![prev] = next[x]]
        /\ last' = IF next[x] = Nil THEN prev ELSE last
        /\ UNCHANGED first

(* List::Remove; the item must be in the list.                             *)
Remove(x) ==
    /\ IsInList(x)
    /\ \/ x = first /\ DropFirst
       \/ x # first /\ Unlink(x)
    /\ numInList' = numInList - 1
    /\ removed' = x
    /\ UNCHANGED sorted

ListNext ==
    \/ RemoveFront
    \/ \E x \in Item : Append_(x) \/ Prepend(x) \/ Insert(x) \/ Remove(x)

ListSpec == ListInit /\ [][ListNext]_listVars
-----------------------------------------------------------------------------
(* List::SanityCheck and SortedList::SanityCheck, which the code calls     *)
(* only in its self tests: one gets from first to last in numInList        *)
(* elements, nothing follows the last, and a SortedList is in order.       *)
SanityCheck ==
    /\ Len(Walk) = numInList
    /\ numInList = 0 => first = Nil /\ last = Nil
    /\ numInList > 0 => Walk[numInList] = last /\ next[last] = Nil
    /\ sorted => \A i \in 2 .. numInList : ~Less(Walk[i], Walk[i - 1])

(* A linked list behaves as the sequence that one meets when one walks     *)
(* along it: each operation does to the sequence what its name says, and   *)
(* after every one of them the SanityCheck would pass.                     *)
L == INSTANCE ItemList WITH items <- Walk, NULL <- Nil
ListsAreSequences ==
    /\ L!Spec
    /\ [][SanityCheck']_listVars
    /\ [][\A x \in Item : /\ Append_(x) => L!Append_(x)
                          /\ Prepend(x) => L!Prepend(x)
                          /\ Insert(x) => L!Insert(x)
                          /\ Remove(x) => L!Remove(x)]_listVars
=============================================================================
