----------------------------- MODULE HashTable ------------------------------
(***************************************************************************)
(* Class HashTable of lib/hash.cc and its iterator: an array of Lists (see *)
(* module LinkedList) that ReHash makes longer when it gets full.  While   *)
(* an iterator is in use the table is not changed: "Mutual exclusion must  *)
(* be provided by the caller".                                             *)
(***************************************************************************)
EXTENDS Integers, Sequences, FiniteSets

LOCAL Seqs == INSTANCE SequencesExt

CONSTANTS Item, Key,                 \* getKey(x) is Key[x]
          Hash(_),                   \* the hash function of the caller
          InitialBuckets, ResizeRatio, IncreaseSizeBy,
          NULL

VARIABLES buckets,   \* buckets[i], for i in 0 .. numBuckets - 1: a List
          numItems,
          result,    \* what the last Find or Remove returned
          iter,      \* HashIterator: its bucket and place there, or NULL
          seen       \* the items that the iterator has given

tableVars == <<buckets, numItems, result, iter, seen>>

NumBuckets(b) == Cardinality(DOMAIN b)

(* HashTable::InitBuckets.                                                 *)
InitBuckets(sz) == [i \in 0 .. sz - 1 |-> << >>]

Init ==
    /\ buckets = InitBuckets(InitialBuckets)
    /\ numItems = 0 /\ result = NULL /\ iter = NULL /\ seen = {}

(* Definitions named Wrong... are plausible mistakes in the definition that *)
(* follows them; they are used only to show that the properties below      *)
(* notice them.                                                            *)

(* HashTable::HashValue in the bucket array b.                             *)
HashValue(k, b) == Hash(k) % NumBuckets(b)

(* HashTable::FindInBucket and Find: the item with key k, or NULL.         *)
Find(k) ==
    LET list == SelectSeq(buckets[HashValue(k, buckets)], LAMBDA x : Key[x] = k)
    IN  IF list = << >> THEN NULL ELSE Head(list)

(* ReHash that adds the items where they were.                             *)
WrongReHash ==
    [i \in 0 .. NumBuckets(buckets) * IncreaseSizeBy - 1 |->
        IF i \in DOMAIN buckets THEN buckets[i] ELSE << >>]

(* HashTable::ReHash: the items, bucket by bucket, are appended to the     *)
(* buckets of a longer array.                                              *)
ReHash ==
    LET new == InitBuckets(NumBuckets(buckets) * IncreaseSizeBy)
        all == Seqs!FlattenSeq([i \in 1 .. NumBuckets(buckets) |-> buckets[i - 1]])
    IN  [i \in DOMAIN new |-> SelectSeq(all, LAMBDA x : HashValue(Key[x], new) = i)]

(* HashTable::Insert.                                                      *)
Insert(x) ==
    LET table == IF numItems \div NumBuckets(buckets) >= ResizeRatio
                 THEN ReHash ELSE buckets
    IN  /\ iter = NULL
        /\ Find(Key[x]) = NULL
        /\ buckets' = [table EXCEPT ![HashValue(Key[x], table)] = Append(@, x)]
        /\ numItems' = numItems + 1
        /\ UNCHANGED <<result, iter, seen>>

(* HashTable::Remove.                                                      *)
Remove(k) ==
    /\ iter = NULL
    /\ Find(k) # NULL
    /\ buckets' = [buckets EXCEPT ![HashValue(k, buckets)] =
                       SelectSeq(@, LAMBDA x : x # Find(k))]
    /\ numItems' = numItems - 1
    /\ result' = Find(k)
    /\ UNCHANGED <<iter, seen>>

(* HashTable::Find, also as IsInTable.                                     *)
Lookup(k) == result' = Find(k) /\ UNCHANGED <<buckets, numItems, iter, seen>>

(* HashTable::FindNextFullBucket.                                          *)
FindNextFullBucket(b) ==
    CHOOSE c \in b .. NumBuckets(buckets) :
        /\ c = NumBuckets(buckets) \/ buckets[c] # << >>
        /\ \A d \in b .. c - 1 : buckets[d] = << >>

IsDone == iter.bucket = NumBuckets(buckets)

(* HashIterator::HashIterator.                                             *)
Iterate ==
    /\ iter = NULL
    /\ iter' = [bucket |-> FindNextFullBucket(0), place |-> 1]
    /\ seen' = {}
    /\ UNCHANGED <<buckets, numItems, result>>

(* HashIterator::Item and HashIterator::Next.                              *)
IterNext ==
    /\ iter # NULL /\ ~IsDone
    /\ seen' = seen \cup {buckets[iter.bucket][iter.place]}
    /\ iter' = IF iter.place < Len(buckets[iter.bucket])
               THEN [iter EXCEPT !.place = @ + 1]
               ELSE [bucket |-> FindNextFullBucket(iter.bucket + 1), place |-> 1]
    /\ UNCHANGED <<buckets, numItems, result>>

(* The loop over the iterator ends.                                        *)
IterEnds ==
    /\ iter # NULL /\ IsDone
    /\ iter' = NULL /\ seen' = {}
    /\ UNCHANGED <<buckets, numItems, result>>

Next ==
    \/ \E x \in Item : Insert(x)
    \/ \E k \in {Key[x] : x \in Item} : Remove(k) \/ Lookup(k)
    \/ Iterate \/ IterNext \/ IterEnds

Spec == Init /\ [][Next]_tableVars
-----------------------------------------------------------------------------
(* HashTable::SanityCheck, which ReHash asserts before and after it moves  *)
(* the items: every item is in the bucket that its key hashes to, and      *)
(* numItems is the number of them.                                         *)
SanityCheck ==
    /\ \A i \in DOMAIN buckets : \A j \in 1 .. Len(buckets[i]) :
          i = HashValue(Key[buckets[i][j]], buckets)
    /\ numItems = Seqs!FoldLeft(LAMBDA n, i : n + Len(buckets[i - 1]), 0,
                           [i \in 1 .. NumBuckets(buckets) |-> i])

(* Through any number of ReHashes the table is a map: Find and Remove      *)
(* return the item that was inserted with the key, and an iterator gives   *)
(* every item of the table once.  SanityCheck never fails.                 *)
M == INSTANCE KeyMap WITH
         items <- UNION {Seqs!ToSet(buckets[i]) : i \in DOMAIN buckets},
         iterating <- iter # NULL
ImplementsKeyMap == M!Spec /\ [][SanityCheck']_tableVars
=============================================================================
