--------------------------- MODULE ThreadsProofs ----------------------------
(***************************************************************************)
(* Proofs about Threads, for any finite set of threads, any set of         *)
(* semaphores and any initial values: the type invariant, OnePlace,        *)
(* CarcassSafe, NoLostWakeup, and that Threads implements Semaphores.      *)
(*                                                                         *)
(* Proofs about LinkedList, for any finite set of items and any keys: that *)
(* the lists are sequences.                                                *)
(***************************************************************************)
EXTENDS Threads, LinkedList, SetFacts, TLAPS

Pointer == Item \cup {Nil}
N == Cardinality(Item)

(* s, of n different items, is what one meets from f along nx.             *)
Follows(s, n, f, nx) ==
    /\ n \in Nat /\ s \in [1 .. n -> Item]
    /\ \A i, j \in 1 .. n : s[i] = s[j] => i = j
    /\ nx \in [Item -> Pointer]
    /\ n = 0 => f = Nil
    /\ n > 0 => f = s[1] /\ nx[s[n]] = Nil
    /\ \A i \in 1 .. n - 1 : nx[s[i]] = s[i + 1]

(* There are finitely many items.                                          *)
LEMMA NType ==
    ASSUME SetFacts
    PROVE  N \in Nat
BY ListAssumption, Zenon DEF N, SetFacts, CardinalityFact

(* Different items are at most as many as there are.                       *)
LEMMA AtMostAll ==
    ASSUME SetFacts, NEW n \in Nat, NEW s \in [1 .. n -> Item],
           \A i, j \in 1 .. n : s[i] = s[j] => i = j
    PROVE  n <= N
<1>1. IsFiniteSet(1 .. n) /\ Cardinality(1 .. n) = n /\ IsFiniteSet(Item)
  BY ListAssumption, Zenon DEF SetFacts, IntervalFact
<1>2. ASSUME N < n PROVE FALSE
  <2>1. Cardinality(Item) < Cardinality(1 .. n)
    BY <1>1, <1>2, Zenon DEF N
  <2>2. \E a, b \in 1 .. n : a # b /\ s[a] = s[b]
    BY <1>1, <2>1, ZenonT(30) DEF SetFacts, PigeonFact
  <2> QED BY <2>2, Zenon
<1> QED BY <1>2, NType

(* The loop of Path.                                                       *)
IsLoop(nth, f, nx) ==
    nth = [i \in 1 .. N |->
             IF i = 1 THEN f ELSE IF nth[i - 1] = Nil THEN Nil ELSE nx[nth[i - 1]]]

(* There is only one such loop, by induction on its index.                 *)
LEMMA LoopUnique ==
    ASSUME SetFacts, NEW f, NEW nx, NEW g, NEW h, IsLoop(g, f, nx), IsLoop(h, f, nx)
    PROVE  g = h
<1> DEFINE T == {i \in 1 .. N : g[i] # h[i]}
<1>1. /\ g = [i \in 1 .. N |-> g[i]] /\ h = [i \in 1 .. N |-> h[i]]
      /\ \A i \in 1 .. N : /\ g[i] = IF i = 1 THEN f ELSE IF g[i - 1] = Nil THEN Nil ELSE nx[g[i - 1]]
                           /\ h[i] = IF i = 1 THEN f ELSE IF h[i - 1] = Nil THEN Nil ELSE nx[h[i - 1]]
  BY Zenon DEF IsLoop
<1>2. SUFFICES ASSUME T # {} PROVE FALSE
  <2>1. T = {} => \A i \in 1 .. N : g[i] = h[i]
    BY Zenon
  <2> QED BY <1>1, <2>1
<1>3. PICK m \in T : \A k \in T : m <= k
  <2>1. T \subseteq Nat
    BY NType
  <2> QED BY <1>2, <2>1, Zenon DEF SetFacts, LeastFact
<1>4. CASE m = 1
  BY <1>1, <1>3, <1>4, NType, Zenon
<1>5. CASE m # 1
  <2>1. m - 1 \in 1 .. N /\ g[m - 1] = h[m - 1]
    BY <1>3, <1>5, NType
  <2>2. /\ g[m] = IF g[m - 1] = Nil THEN Nil ELSE nx[g[m - 1]]
        /\ h[m] = IF h[m - 1] = Nil THEN Nil ELSE nx[h[m - 1]]
        /\ g[m] # h[m]
    BY <1>1, <1>3, <1>5, Zenon
  <2> QED BY <2>1, <2>2, Zenon
<1> QED BY <1>4, <1>5, Zenon

(* The loop that Path makes is the one that lists the items and then Nil.  *)
LEMMA PathIs ==
    ASSUME SetFacts, NEW s, NEW n, NEW f, NEW nx, Follows(s, n, f, nx)
    PROVE  Path(f, nx) = s
<1> DEFINE g == [i \in 1 .. N |-> IF i <= n THEN s[i] ELSE Nil]
<1>1. n \in Nat /\ n <= N /\ N \in Nat
  BY AtMostAll, NType, Zenon DEF Follows
<1>2. IsLoop(g, f, nx)
  <2>1. ASSUME NEW i \in 1 .. N
        PROVE  g[i] = IF i = 1 THEN f ELSE IF g[i - 1] = Nil THEN Nil ELSE nx[g[i - 1]]
    <3>1. CASE i = 1
      BY <1>1, <3>1 DEF Follows
    <3>2. CASE i # 1
      <4>1. i - 1 \in 1 .. N
        BY <1>1, <3>2
      <4>2. CASE i - 1 > n
        BY <1>1, <3>2, <4>1, <4>2
      <4>3. CASE i - 1 = n
        BY <1>1, <3>2, <4>1, <4>3, ListAssumption DEF Follows
      <4>4. CASE i - 1 < n
        BY <1>1, <3>2, <4>1, <4>4, ListAssumption DEF Follows
      <4> QED BY <1>1, <4>1, <4>2, <4>3, <4>4
    <3> QED BY <3>1, <3>2, Zenon
  <2> QED BY <2>1 DEF IsLoop
<1> DEFINE nth[i \in 1 .. Cardinality(Item)] ==
      IF i = 1 THEN f ELSE IF nth[i - 1] = Nil THEN Nil ELSE nx[nth[i - 1]]
<1>3. nth = g
  <2>1. nth = CHOOSE h : IsLoop(h, f, nx)
    BY Zenon DEF IsLoop, N
  <2>2. IsLoop(nth, f, nx)
    BY <1>2, <2>1, Zenon
  <2> QED BY <1>2, <2>2, LoopUnique, Zenon
<1> HIDE DEF nth
<1>4. {i \in 1 .. N : nth[i] # Nil} = 1 .. n
  BY <1>1, <1>3, ListAssumption DEF Follows
<1>5. Cardinality(1 .. n) = n
  BY <1>1, Zenon DEF SetFacts, IntervalFact
<1>6. Path(f, nx) = [i \in 1 .. n |-> nth[i]]
  BY <1>4, <1>5, Zenon DEF Path, nth, N
<1> QED BY <1>1, <1>3, <1>6 DEF Follows

(* A list of n items, s, with its pointers.                                *)
Linked(s, n, f, l, nx, srt) ==
    /\ Follows(s, n, f, nx)
    /\ l = IF n = 0 THEN Nil ELSE s[n]
    /\ srt => \A i, j \in 1 .. n : i < j => Key[s[i]] <= Key[s[j]]

(* s with x behind the k-th item, and s without the k-th item.             *)
Put(s, n, k, x) == [i \in 1 .. n + 1 |->
                      IF i <= k THEN s[i] ELSE IF i = k + 1 THEN x ELSE s[i - 1]]
Take(s, n, k) == [i \in 1 .. n - 1 |-> IF i < k THEN s[i] ELSE s[i + 1]]

(* x is put behind the k-th item: the pointers that this changes.          *)
LEMMA PutFollows ==
    ASSUME NEW s, NEW n, NEW f, NEW nx, Follows(s, n, f, nx),
           NEW k \in 0 .. n, NEW x \in Item, \A i \in 1 .. n : s[i] # x,
           NEW g, NEW ny \in [Item -> Pointer],
           g = IF k = 0 THEN x ELSE f,
           ny[x] = IF k = n THEN Nil ELSE s[k + 1],
           k > 0 => ny[s[k]] = x,
           \A i \in 1 .. n : i # k => ny[s[i]] = nx[s[i]]
    PROVE  Follows(Put(s, n, k, x), n + 1, g, ny)
<1> DEFINE t == Put(s, n, k, x)
<1>1. n \in Nat /\ n + 1 \in Nat
  BY DEF Follows
<1>2. t \in [1 .. n + 1 -> Item]
  BY <1>1 DEF Put, Follows
<1>3. /\ t[k + 1] = x
      /\ \A i \in 1 .. k : t[i] = s[i]
      /\ \A i \in k + 2 .. n + 1 : t[i] = s[i - 1]
  BY <1>1 DEF Put
<1> HIDE DEF t
<1>4. \A i, j \in 1 .. n + 1 : t[i] = t[j] => i = j
  <2> SUFFICES ASSUME NEW i \in 1 .. n + 1, NEW j \in 1 .. n + 1, t[i] = t[j] PROVE i = j
    BY Zenon
  <2>1. \A a \in 1 .. n + 1 : \/ a = k + 1 /\ t[a] = x
                              \/ a <= k /\ a \in 1 .. n /\ t[a] = s[a]
                              \/ a > k + 1 /\ a - 1 \in 1 .. n /\ t[a] = s[a - 1]
    BY <1>1, <1>3
  <2> QED BY <1>1, <2>1 DEF Follows
<1>5. g = t[1]
  BY <1>1, <1>3 DEF Follows
<1>6. ny[t[n + 1]] = Nil
  BY <1>1, <1>3 DEF Follows
<1>7. ASSUME NEW i \in 1 .. n
      PROVE  ny[t[i]] = t[i + 1]
  <2>1. CASE i < k
    BY <1>1, <1>3, <2>1 DEF Follows
  <2>2. CASE i = k
    BY <1>1, <1>3, <2>2
  <2>3. CASE i = k + 1
    BY <1>1, <1>3, <2>3
  <2>4. CASE i > k + 1
    BY <1>1, <1>3, <2>4 DEF Follows
  <2> QED BY <1>1, <2>1, <2>2, <2>3, <2>4
<1> QED BY <1>1, <1>2, <1>4, <1>5, <1>6, <1>7 DEF Follows, t

(* The k-th item is taken: the pointers that this changes.                 *)
LEMMA TakeFollows ==
    ASSUME NEW s, NEW n, NEW f, NEW nx, Follows(s, n, f, nx), NEW k \in 1 .. n,
           NEW g, NEW ny \in [Item -> Pointer],
           g = IF k > 1 THEN f ELSE IF n = 1 THEN Nil ELSE s[2],
           k > 1 => ny[s[k - 1]] = IF k = n THEN Nil ELSE s[k + 1],
           \A i \in 1 .. n : i # k - 1 => ny[s[i]] = nx[s[i]]
    PROVE  Follows(Take(s, n, k), n - 1, g, ny)
<1> DEFINE t == Take(s, n, k)
<1>1. n \in Nat /\ n - 1 \in Nat
  BY DEF Follows
<1>2. t \in [1 .. n - 1 -> Item]
  BY <1>1 DEF Take, Follows
<1>3. /\ \A i \in 1 .. k - 1 : t[i] = s[i]
      /\ \A i \in k .. n - 1 : t[i] = s[i + 1]
  BY <1>1 DEF Take
<1> HIDE DEF t
<1>4. \A i, j \in 1 .. n - 1 : t[i] = t[j] => i = j
  <2> SUFFICES ASSUME NEW i \in 1 .. n - 1, NEW j \in 1 .. n - 1, t[i] = t[j] PROVE i = j
    BY Zenon
  <2>1. \A a \in 1 .. n - 1 : \/ a < k /\ a \in 1 .. n /\ t[a] = s[a]
                              \/ a >= k /\ a + 1 \in 1 .. n /\ t[a] = s[a + 1]
    BY <1>1, <1>3
  <2> QED BY <1>1, <2>1 DEF Follows
<1>5. g = IF n - 1 = 0 THEN Nil ELSE t[1]
  BY <1>1, <1>3 DEF Follows
<1>6. n - 1 > 0 => ny[t[n - 1]] = Nil
  BY <1>1, <1>3 DEF Follows
<1>7. ASSUME NEW i \in 1 .. n - 2
      PROVE  ny[t[i]] = t[i + 1]
  <2>1. CASE i < k - 1
    BY <1>1, <1>3, <2>1 DEF Follows
  <2>2. CASE i = k - 1
    BY <1>1, <1>3, <2>2
  <2>3. CASE i > k - 1
    BY <1>1, <1>3, <2>3 DEF Follows
  <2> QED BY <1>1, <2>1, <2>2, <2>3
<1> QED BY <1>1, <1>2, <1>4, <1>5, <1>6, <1>7 DEF Follows, t

(* The operations of ItemList.                                             *)
LEMMA SeqIs ==
    ASSUME NEW n \in Nat, NEW s \in [1 .. n -> Item]
    PROVE  s \in Seq(Item) /\ Len(s) = n
OBVIOUS

(* What the elements of two sequences put together are.                    *)
LEMMA Concat ==
    ASSUME NEW a \in Seq(Item), NEW b \in Seq(Item)
    PROVE  /\ a \o b \in Seq(Item) /\ Len(a \o b) = Len(a) + Len(b)
           /\ \A i \in 1 .. Len(a) : (a \o b)[i] = a[i]
           /\ \A i \in Len(a) + 1 .. Len(a) + Len(b) : (a \o b)[i] = b[i - Len(a)]
<1>1. a \o b \in Seq(Item)
  OBVIOUS
<1>2. Len(a \o b) = Len(a) + Len(b)
  OBVIOUS
<1>3. \A i \in 1 .. Len(a) : (a \o b)[i] = a[i]
  OBVIOUS
<1>4. \A i \in Len(a) + 1 .. Len(a) + Len(b) : (a \o b)[i] = b[i - Len(a)]
  OBVIOUS
<1> QED BY <1>1, <1>2, <1>3, <1>4, Zenon

(* A sequence of one item.                                                 *)
LEMMA Single ==
    ASSUME NEW x \in Item
    PROVE  <<x>> \in Seq(Item) /\ Len(<<x>>) = 1 /\ <<x>>[1] = x
OBVIOUS

(* A sequence is the function of its indices.                              *)
LEMMA AsFunction ==
    ASSUME NEW s \in Seq(Item), NEW n, Len(s) = n
    PROVE  s = [i \in 1 .. n |-> s[i]]
OBVIOUS

(* Put behind the last element is Append.                                  *)
LEMMA AppendIs ==
    ASSUME NEW n \in Nat, NEW s \in [1 .. n -> Item], NEW x \in Item
    PROVE  Put(s, n, n, x) = Append(s, x)
<1>1. PICK d : d = Append(s, x)
  BY Zenon
<1>2. s \in Seq(Item) /\ Len(s) = n
  BY SeqIs, Zenon
<1>3. /\ d \in Seq(Item) /\ Len(d) = n + 1 /\ d[n + 1] = x
      /\ \A i \in 1 .. n : d[i] = s[i]
  BY <1>1, <1>2
<1>4. d = [i \in 1 .. n + 1 |-> d[i]]
  BY <1>3, AsFunction, Zenon
<1>5. \A i \in 1 .. n + 1 : d[i] = IF i <= n THEN s[i] ELSE IF i = n + 1 THEN x ELSE s[i - 1]
  BY <1>3
<1> QED BY <1>1, <1>4, <1>5, Zenon DEF Put

(* Put before the first element is what Prepend does.                      *)
LEMMA PrependIs ==
    ASSUME NEW n \in Nat, NEW s \in [1 .. n -> Item], NEW x \in Item
    PROVE  Put(s, n, 0, x) = <<x>> \o s
<1>1. PICK d : d = <<x>> \o s
  BY Zenon
<1>2. s \in Seq(Item) /\ Len(s) = n
  BY SeqIs, Zenon
<1>3. /\ d \in Seq(Item) /\ Len(d) = n + 1
      /\ d[1] = x /\ \A i \in 2 .. n + 1 : d[i] = s[i - 1]
  <2>1. PICK a : a = <<x>>
    BY Zenon
  <2>2. a \in Seq(Item) /\ Len(a) = 1 /\ a[1] = x
    BY <2>1, Single, Zenon
  <2> QED BY <1>1, <1>2, <2>1, <2>2, Concat
<1>4. d = [i \in 1 .. n + 1 |-> d[i]]
  BY <1>3, AsFunction, Zenon
<1>5. \A i \in 1 .. n + 1 : d[i] = IF i <= 0 THEN s[i] ELSE IF i = 0 + 1 THEN x ELSE s[i - 1]
  BY <1>3
<1> QED BY <1>1, <1>4, <1>5, Zenon DEF Put

(* Take of the first element is Tail.                                      *)
LEMMA TailIs ==
    ASSUME NEW n \in Nat \ {0}, NEW s \in [1 .. n -> Item]
    PROVE  Take(s, n, 1) = Tail(s)
<1>1. PICK d : d = Tail(s)
  BY Zenon
<1>2. s \in Seq(Item) /\ Len(s) = n
  BY SeqIs, Zenon
<1>3. d \in Seq(Item) /\ Len(d) = n - 1 /\ \A i \in 1 .. n - 1 : d[i] = s[i + 1]
  BY <1>1, <1>2
<1>4. d = [i \in 1 .. n - 1 |-> d[i]]
  BY <1>3, AsFunction, Zenon
<1>5. \A i \in 1 .. n - 1 : d[i] = IF i < 1 THEN s[i] ELSE s[i + 1]
  BY <1>3
<1> QED BY <1>1, <1>4, <1>5, Zenon DEF Take

(* Put in any place, as module ItemList writes it.                         *)
LEMMA PutIs ==
    ASSUME NEW n \in Nat, NEW s \in [1 .. n -> Item], NEW x \in Item, NEW k \in 0 .. n
    PROVE  Put(s, n, k, x) = SubSeq(s, 1, k) \o <<x>> \o SubSeq(s, k + 1, n)
<1>1. PICK a : a = SubSeq(s, 1, k)
  BY Zenon
<1>2. PICK b : b = SubSeq(s, k + 1, n)
  BY Zenon
<1>3. s \in Seq(Item) /\ Len(s) = n
  BY SeqIs, Zenon
<1>4. a \in Seq(Item) /\ Len(a) = k /\ \A i \in 1 .. k : a[i] = s[i]
  BY <1>1, <1>3
<1>5. b \in Seq(Item) /\ Len(b) = n - k /\ \A i \in 1 .. n - k : b[i] = s[i + k]
  BY <1>2, <1>3
<1>6. PICK c : c = a \o <<x>>
  BY Zenon
<1>7. c \in Seq(Item) /\ Len(c) = k + 1 /\ c[k + 1] = x /\ \A i \in 1 .. k : c[i] = s[i]
  <2>1. PICK o : o = <<x>>
    BY Zenon
  <2>2. o \in Seq(Item) /\ Len(o) = 1 /\ o[1] = x
    BY <2>1, Single, Zenon
  <2>3. /\ c \in Seq(Item) /\ Len(c) = Len(a) + Len(o)
        /\ \A i \in 1 .. Len(a) : c[i] = a[i]
        /\ \A i \in Len(a) + 1 .. Len(a) + Len(o) : c[i] = o[i - Len(a)]
    <3>1. c = a \o o
      BY <1>6, <2>1, Zenon
    <3> QED BY <1>4, <2>2, <3>1, Concat, Zenon
  <2>4. c[k + 1] = x
    BY <1>4, <2>2, <2>3
  <2> QED BY <1>4, <2>2, <2>3, <2>4, Zenon
<1>8. PICK d : d = c \o b
  BY Zenon
<1>9. /\ d \in Seq(Item) /\ Len(d) = n + 1
      /\ \A i \in 1 .. k + 1 : d[i] = c[i]
      /\ \A i \in k + 2 .. n + 1 : d[i] = b[i - (k + 1)]
  BY <1>5, <1>7, <1>8, Concat
<1>10. d = [i \in 1 .. n + 1 |-> d[i]]
  BY <1>9
<1>11. \A i \in 1 .. n + 1 : d[i] = IF i <= k THEN s[i] ELSE IF i = k + 1 THEN x ELSE s[i - 1]
  <2>1. ASSUME NEW i \in 1 .. k + 1 PROVE d[i] = IF i <= k THEN s[i] ELSE x
    <3>1. d[i] = c[i]
      BY <1>9, Zenon
    <3> QED BY <1>7, <3>1
  <2>2. ASSUME NEW i \in k + 2 .. n + 1 PROVE d[i] = s[i - 1]
    <3>1. i - (k + 1) \in 1 .. n - k /\ (i - (k + 1)) + k = i - 1
      OBVIOUS
    <3>2. d[i] = b[i - (k + 1)]
      BY <1>9, Zenon
    <3>3. b[i - (k + 1)] = s[(i - (k + 1)) + k]
      BY <1>5, <3>1, Zenon
    <3> QED BY <3>1, <3>2, <3>3, Zenon
  <2> QED BY <2>1, <2>2
<1> QED BY <1>1, <1>2, <1>6, <1>8, <1>10, <1>11, Zenon DEF Put

(* Take from any place, as module ItemList writes it.                      *)
LEMMA TakeIs ==
    ASSUME NEW n \in Nat, NEW s \in [1 .. n -> Item], NEW k \in 1 .. n
    PROVE  Take(s, n, k) = SubSeq(s, 1, k - 1) \o SubSeq(s, k + 1, n)
<1>1. PICK a : a = SubSeq(s, 1, k - 1)
  BY Zenon
<1>2. PICK b : b = SubSeq(s, k + 1, n)
  BY Zenon
<1>3. s \in Seq(Item) /\ Len(s) = n
  BY SeqIs, Zenon
<1>4. a \in Seq(Item) /\ Len(a) = k - 1 /\ \A i \in 1 .. k - 1 : a[i] = s[i]
  BY <1>1, <1>3
<1>5. b \in Seq(Item) /\ Len(b) = n - k /\ \A i \in 1 .. n - k : b[i] = s[i + k]
  BY <1>2, <1>3
<1>6. PICK d : d = a \o b
  BY Zenon
<1>7. /\ d \in Seq(Item) /\ Len(d) = n - 1
      /\ \A i \in 1 .. k - 1 : d[i] = a[i]
      /\ \A i \in k .. n - 1 : d[i] = b[i - (k - 1)]
  <2>1. /\ d \in Seq(Item) /\ Len(d) = Len(a) + Len(b)
        /\ \A i \in 1 .. Len(a) : d[i] = a[i]
        /\ \A i \in Len(a) + 1 .. Len(a) + Len(b) : d[i] = b[i - Len(a)]
    BY <1>4, <1>5, <1>6, Concat, Zenon
  <2>2. Len(d) = n - 1
    BY <1>4, <1>5, <2>1
  <2>3. ASSUME NEW i \in k .. n - 1 PROVE d[i] = b[i - (k - 1)]
    <3>1. i \in Len(a) + 1 .. Len(a) + Len(b) /\ i - Len(a) = i - (k - 1)
      BY <1>4, <1>5
    <3> QED BY <2>1, <3>1, Zenon
  <2> QED BY <1>4, <2>1, <2>2, <2>3, Zenon
<1>8. d = [i \in 1 .. n - 1 |-> d[i]]
  BY <1>7
<1>9. \A i \in 1 .. n - 1 : d[i] = IF i < k THEN s[i] ELSE s[i + 1]
  <2>1. ASSUME NEW i \in k .. n - 1 PROVE d[i] = s[i + 1]
    <3>1. i - (k - 1) \in 1 .. n - k /\ (i - (k - 1)) + k = i + 1
      OBVIOUS
    <3> QED BY <1>5, <1>7, <3>1, Zenon
  <2>2. ASSUME NEW i \in 1 .. k - 1 PROVE d[i] = s[i]
    BY <1>4, <1>7, Zenon
  <2> QED BY <2>1, <2>2
<1> QED BY <1>1, <1>2, <1>6, <1>8, <1>9, Zenon DEF Take
-----------------------------------------------------------------------------
(* The inductive invariant: the elements that one meets are numInList      *)
(* different ones, the last pointer points to the last of them, and those  *)
(* of a SortedList are in order.                                           *)
ListInv == sorted \in BOOLEAN /\ Linked(Walk, numInList, first, last, next, sorted)

(* What an operation does that puts x behind the k-th element.             *)
PutsBehind(k, x) ==
    /\ first' = IF k = 0 THEN x ELSE first
    /\ last' = IF k = numInList THEN x ELSE last
    /\ next' \in [Item -> Pointer]
    /\ next'[x] = IF k = numInList THEN Nil ELSE Walk[k + 1]
    /\ k > 0 => next'[Walk[k]] = x
    /\ \A i \in 1 .. numInList : i # k => next'[Walk[i]] = next[Walk[i]]
    /\ numInList' = numInList + 1 /\ sorted' = sorted

(* The list is then the sequence with x in that place.                     *)
LEMMA PutStep ==
    ASSUME SetFacts, ListInv, NEW x \in Item, NEW k \in 0 .. numInList, PutsBehind(k, x),
           \A i \in 1 .. numInList : Walk[i] # x,
           sorted => /\ \A i \in 1 .. k : Key[Walk[i]] <= Key[x]
                     /\ \A i \in k + 1 .. numInList : Key[x] < Key[Walk[i]]
    PROVE  ListInv' /\ Walk' = Put(Walk, numInList, k, x)
<1>1. PICK s, n : s = Walk /\ n = numInList
  BY Zenon
<1>2. Follows(s, n, first, next) /\ n \in Nat /\ s \in [1 .. n -> Item]
  BY <1>1 DEF ListInv, Linked, Follows
<1>3. PICK t : t = Put(s, n, k, x)
  BY Zenon
<1>4. Follows(t, n + 1, first', next')
  <2>1. k \in 0 .. n /\ \A i \in 1 .. n : s[i] # x
    BY <1>1, Zenon
  <2>2. PICK g, ny : g = first' /\ ny = next'
    BY Zenon
  <2>3. /\ g = IF k = 0 THEN x ELSE first
        /\ ny \in [Item -> Pointer]
        /\ ny[x] = IF k = n THEN Nil ELSE s[k + 1]
        /\ k > 0 => ny[s[k]] = x
        /\ \A i \in 1 .. n : i # k => ny[s[i]] = next[s[i]]
    BY <1>1, <2>2, Zenon DEF PutsBehind
  <2>4. Follows(Put(s, n, k, x), n + 1, g, ny)
    BY <1>2, <2>1, <2>3, PutFollows, SMTT(30)
  <2> QED BY <1>3, <2>2, <2>4, Zenon
<1>5. Walk' = t
  BY <1>4, PathIs, Zenon DEF Walk
<1>6. t[n + 1] = last'
  BY <1>1, <1>2, <1>3 DEF PutsBehind, Put, ListInv, Linked
<1>7. ASSUME sorted, NEW i \in 1 .. n + 1, NEW j \in 1 .. n + 1, i < j
      PROVE  Key[t[i]] <= Key[t[j]]
  <2>1. \A a \in 1 .. n + 1 : \/ a = k + 1 /\ t[a] = x
                              \/ a <= k /\ a \in 1 .. n /\ t[a] = s[a]
                              \/ a > k + 1 /\ a - 1 \in 1 .. n /\ t[a] = s[a - 1]
    BY <1>1, <1>2, <1>3 DEF Put
  <2>2. \A a \in 1 .. n : s[a] \in Item /\ Key[s[a]] \in Int
    BY <1>2, ListAssumption, Zenon
  <2>3. Key[x] \in Int
    BY ListAssumption, Zenon
  <2>4. \A a, b \in 1 .. n : a < b => Key[s[a]] <= Key[s[b]]
    BY <1>1, <1>7, Zenon DEF ListInv, Linked
  <2>5. /\ \A a \in 1 .. k : Key[s[a]] <= Key[x]
        /\ \A a \in k + 1 .. n : Key[x] < Key[s[a]]
    BY <1>1, <1>7, Zenon
  <2>6. CASE i <= k
    <3>1. i \in 1 .. n /\ t[i] = s[i]
      BY <1>2, <1>7, <2>1, <2>6
    <3>2. CASE j <= k
      <4>1. j \in 1 .. n /\ t[j] = s[j]
        BY <1>2, <1>7, <2>1, <3>2
      <4> QED BY <1>7, <2>4, <3>1, <4>1, Zenon
    <3>3. CASE j = k + 1
      <4>1. t[j] = x /\ i \in 1 .. k
        BY <1>2, <1>7, <2>1, <2>6, <3>3
      <4> QED BY <2>5, <3>1, <4>1, Zenon
    <3>4. CASE j > k + 1
      <4>1. j - 1 \in 1 .. n /\ t[j] = s[j - 1] /\ i < j - 1
        BY <1>2, <1>7, <2>1, <2>6, <3>4
      <4> QED BY <2>4, <3>1, <4>1, Zenon
    <3> QED BY <1>2, <3>2, <3>3, <3>4
  <2>7. CASE i = k + 1
    <3>1. t[i] = x /\ j - 1 \in k + 1 .. n /\ t[j] = s[j - 1]
      BY <1>2, <1>7, <2>1, <2>7
    <3>2. j - 1 \in 1 .. n
      BY <1>2, <1>7, <2>7
    <3>3. Key[x] < Key[s[j - 1]] /\ Key[s[j - 1]] \in Int
      BY <2>2, <2>5, <3>1, <3>2, Zenon
    <3>4. Key[x] <= Key[s[j - 1]]
      BY <2>3, <3>3
    <3> QED BY <3>1, <3>4, Zenon
  <2>8. CASE i > k + 1
    <3>1. /\ i - 1 \in 1 .. n /\ t[i] = s[i - 1] /\ j - 1 \in 1 .. n /\ t[j] = s[j - 1]
          /\ i - 1 < j - 1
      BY <1>2, <1>7, <2>1, <2>8
    <3> QED BY <2>4, <3>1, Zenon
  <2> QED BY <1>2, <2>6, <2>7, <2>8
<1>8. Linked(t, n + 1, first', last', next', sorted')
  BY <1>1, <1>2, <1>4, <1>6, <1>7 DEF Linked, PutsBehind
<1> QED BY <1>1, <1>3, <1>5, <1>8, Zenon DEF ListInv, PutsBehind

(* What an operation does that takes the k-th element.                     *)
TakesOut(k) ==
    /\ first' = IF k > 1 THEN first ELSE IF numInList = 1 THEN Nil ELSE Walk[2]
    /\ last' = IF k < numInList THEN last
               ELSE IF numInList = 1 THEN Nil ELSE Walk[numInList - 1]
    /\ next' \in [Item -> Pointer]
    /\ k > 1 => next'[Walk[k - 1]] = IF k = numInList THEN Nil ELSE Walk[k + 1]
    /\ \A i \in 1 .. numInList : i # k - 1 => next'[Walk[i]] = next[Walk[i]]
    /\ numInList' = numInList - 1 /\ sorted' = sorted

(* The list is then the sequence without that element.                     *)
LEMMA TakeStep ==
    ASSUME SetFacts, ListInv, NEW k \in 1 .. numInList, TakesOut(k)
    PROVE  ListInv' /\ Walk' = Take(Walk, numInList, k)
<1>1. PICK s, n : s = Walk /\ n = numInList
  BY Zenon
<1>2. Follows(s, n, first, next) /\ n \in Nat /\ s \in [1 .. n -> Item]
  BY <1>1 DEF ListInv, Linked, Follows
<1>3. PICK t : t = Take(s, n, k)
  BY Zenon
<1>4. Follows(t, n - 1, first', next')
  BY <1>1, <1>2, <1>3, TakeFollows DEF TakesOut
<1>5. Walk' = t
  BY <1>4, PathIs, Zenon DEF Walk
<1>6. last' = IF n - 1 = 0 THEN Nil ELSE t[n - 1]
  BY <1>1, <1>2, <1>3 DEF TakesOut, Take, ListInv, Linked
<1>7. ASSUME sorted, NEW i \in 1 .. n - 1, NEW j \in 1 .. n - 1, i < j
      PROVE  Key[t[i]] <= Key[t[j]]
  <2>1. \A a \in 1 .. n - 1 : \/ a < k /\ a \in 1 .. n /\ t[a] = s[a]
                              \/ a >= k /\ a + 1 \in 1 .. n /\ t[a] = s[a + 1]
    BY <1>1, <1>2, <1>3 DEF Take
  <2>2. \A a, b \in 1 .. n : a < b => Key[s[a]] <= Key[s[b]]
    BY <1>1, <1>7, Zenon DEF ListInv, Linked
  <2>3. \E a, b \in 1 .. n : a < b /\ t[i] = s[a] /\ t[j] = s[b]
    BY <1>1, <1>2, <1>7, <2>1
  <2> QED BY <2>2, <2>3, Zenon
<1>8. Linked(t, n - 1, first', last', next', sorted')
  BY <1>1, <1>2, <1>4, <1>6, <1>7, Zenon DEF Linked, TakesOut
<1> QED BY <1>1, <1>3, <1>5, <1>8, Zenon DEF ListInv, TakesOut

(* What the invariant says, fact by fact.                                  *)
LEMMA WalkFacts ==
    ASSUME ListInv
    PROVE  /\ numInList \in Nat /\ Walk \in [1 .. numInList -> Item]
           /\ Len(Walk) = numInList /\ DOMAIN Walk = 1 .. numInList
           /\ next \in [Item -> Pointer]
           /\ \A i, j \in 1 .. numInList : Walk[i] = Walk[j] => i = j
           /\ numInList = 0 => first = Nil /\ last = Nil
           /\ numInList > 0 => /\ first = Walk[1] /\ last = Walk[numInList]
                              /\ next[Walk[numInList]] = Nil
           /\ \A i \in 1 .. numInList - 1 : next[Walk[i]] = Walk[i + 1]
           /\ sorted => \A i, j \in 1 .. numInList : i < j => Key[Walk[i]] <= Key[Walk[j]]
<1>1. numInList \in Nat /\ Walk \in [1 .. numInList -> Item]
  BY Zenon DEF ListInv, Linked, Follows
<1>2. Len(Walk) = numInList /\ DOMAIN Walk = 1 .. numInList
  BY <1>1, SeqIs, Zenon
<1> QED BY <1>1, <1>2 DEF ListInv, Linked, Follows

(* Where x goes: the only one, the last or the first.                      *)
LEMMA EndsOfList ==
    ASSUME ListInv, NEW x \in Item, Adding(x)
    PROVE  /\ \A i \in 1 .. numInList : Walk[i] # x
           /\ IsEmpty /\ Alone(x) => PutsBehind(numInList, x) /\ PutsBehind(0, x)
           /\ ~IsEmpty /\ AtEnd(x) => PutsBehind(numInList, x)
           /\ ~IsEmpty /\ InFront(x) => PutsBehind(0, x)
<1>1. \A i \in 1 .. numInList : Walk[i] # x
  BY WalkFacts, Zenon DEF Adding, IsInList
<1>2. ASSUME IsEmpty, Alone(x)
      PROVE  PutsBehind(numInList, x) /\ PutsBehind(0, x)
  BY <1>2, WalkFacts DEF IsEmpty, Alone, Adding, PutsBehind, Pointer
<1>3. ASSUME ~IsEmpty, AtEnd(x)
      PROVE  PutsBehind(numInList, x)
  <2>1. numInList > 0 /\ last = Walk[numInList] /\ last \in Item /\ last # x
    BY <1>1, <1>3, WalkFacts DEF IsEmpty
  <2>2. /\ next' \in [Item -> Pointer] /\ next'[x] = Nil /\ next'[last] = x
        /\ \A y \in Item \ {x, last} : next'[y] = next[y]
    BY <1>3, <2>1, WalkFacts, Zenon DEF AtEnd, Pointer
  <2> QED BY <1>1, <1>3, <2>1, <2>2, WalkFacts DEF AtEnd, Adding, PutsBehind
<1>4. ASSUME ~IsEmpty, InFront(x)
      PROVE  PutsBehind(0, x)
  <2>1. numInList > 0 /\ first = Walk[1] /\ first \in Item
    BY <1>4, WalkFacts DEF IsEmpty
  <2>2. /\ next' \in [Item -> Pointer] /\ next'[x] = first
        /\ \A y \in Item \ {x} : next'[y] = next[y]
    BY <1>4, <2>1, WalkFacts, Zenon DEF InFront, Pointer
  <2> QED BY <1>1, <1>4, <2>1, <2>2, WalkFacts DEF InFront, Adding, PutsBehind
<1> QED BY <1>1, <1>2, <1>3, <1>4, Zenon

(* List::Append keeps the invariant and appends to the sequence.           *)
LEMMA AppendStep ==
    ASSUME SetFacts, ListInv, NEW x \in Item, Append_(x)
    PROVE  ListInv' /\ L!Append_(x)
<1>1. Adding(x) /\ ~sorted /\ PutsBehind(numInList, x) /\ \A i \in 1 .. numInList : Walk[i] # x
  BY EndsOfList, Zenon DEF Append_
<1>2. numInList \in 0 .. numInList
  BY WalkFacts
<1>3. ListInv' /\ Walk' = Put(Walk, numInList, numInList, x)
  BY <1>1, <1>2, PutStep, Zenon
<1>4. Walk' = Append(Walk, x)
  <2>1. numInList \in Nat /\ Walk \in [1 .. numInList -> Item]
    BY WalkFacts, Zenon
  <2> QED BY <1>3, <2>1, AppendIs, Zenon
<1> QED BY <1>1, <1>3, <1>4, WalkFacts, Zenon DEF L!Append_, L!New, Adding

(* List::Prepend keeps the invariant and prepends to the sequence.         *)
LEMMA PrependStep ==
    ASSUME SetFacts, ListInv, NEW x \in Item, Prepend(x)
    PROVE  ListInv' /\ L!Prepend(x)
<1>1. Adding(x) /\ ~sorted /\ PutsBehind(0, x) /\ \A i \in 1 .. numInList : Walk[i] # x
  BY EndsOfList, Zenon DEF Prepend
<1>2. 0 \in 0 .. numInList
  BY WalkFacts
<1>3. ListInv' /\ Walk' = Put(Walk, numInList, 0, x)
  BY <1>1, <1>2, PutStep, Zenon
<1>4. Walk' = <<x>> \o Walk
  <2>1. numInList \in Nat /\ Walk \in [1 .. numInList -> Item]
    BY WalkFacts, Zenon
  <2> QED BY <1>3, <2>1, PrependIs, Zenon
<1> QED BY <1>1, <1>3, <1>4, WalkFacts, Zenon DEF L!Prepend, L!New, Adding

(* Insert finds the place before the first item that is bigger.            *)
LEMMA InsertPlace ==
    ASSUME ListInv, NEW x \in Item, Insert(x)
    PROVE  \E k \in 0 .. numInList :
              /\ PutsBehind(k, x)
              /\ \A i \in 1 .. k : Key[Walk[i]] <= Key[x]
              /\ \A i \in k + 1 .. numInList : Key[x] < Key[Walk[i]]
<1>1. Adding(x) /\ sorted /\ \A i \in 1 .. numInList : Walk[i] # x
  BY EndsOfList, Zenon DEF Insert
<1>2. /\ \A i \in 1 .. numInList : Walk[i] \in Item /\ Key[Walk[i]] \in Int
      /\ Key[x] \in Int /\ numInList \in Nat
      /\ \A i, j \in 1 .. numInList : i < j => Key[Walk[i]] <= Key[Walk[j]]
  BY <1>1, WalkFacts, ListAssumption, Zenon
<1>3. CASE IsEmpty /\ Alone(x)
  <2>1. PutsBehind(0, x)
    BY <1>1, <1>3, EndsOfList, Zenon
  <2> QED BY <1>2, <1>3, <2>1 DEF IsEmpty
<1>4. CASE ~IsEmpty /\ Less(x, first) /\ InFront(x)
  <2>1. PutsBehind(0, x)
    BY <1>1, <1>4, EndsOfList, Zenon
  <2>2. numInList > 0 /\ Key[x] < Key[Walk[1]]
    BY <1>4, WalkFacts DEF IsEmpty, Less
  <2>3. \A i \in 1 .. numInList : Key[x] < Key[Walk[i]]
    BY <1>2, <2>2
  <2> QED BY <1>2, <2>1, <2>3
<1>5. ASSUME ~IsEmpty, ~Less(x, first), NEW i \in Successors(x),
             \A j \in Successors(x) : i <= j,
             next' = [next EXCEPT ![x] = next[Walk[i - 1]], ![Walk[i - 1]] = x],
             UNCHANGED <<first, last>>
      PROVE  /\ i - 1 \in 0 .. numInList /\ PutsBehind(i - 1, x)
             /\ \A j \in 1 .. i - 1 : Key[Walk[j]] <= Key[x]
             /\ \A j \in (i - 1) + 1 .. numInList : Key[x] < Key[Walk[j]]
  <2>1. /\ i \in 2 .. numInList /\ Key[x] < Key[Walk[i]]
        /\ \A j \in 2 .. numInList : Key[x] < Key[Walk[j]] => i <= j
    BY <1>5, WalkFacts, Zenon DEF Successors, Less
  <2>2. ~(Key[x] < Key[Walk[1]])
    BY <1>2, <1>5, <2>1, WalkFacts DEF Less
  <2>3. \A j \in 1 .. i - 1 : Key[Walk[j]] <= Key[x]
    BY <1>2, <2>1, <2>2
  <2>4. \A j \in (i - 1) + 1 .. numInList : Key[x] < Key[Walk[j]]
    BY <1>2, <2>1
  <2>5. PICK p \in Item : p = Walk[i - 1]
    BY <1>2, <2>1
  <2>6. p # x /\ next[p] = Walk[i] /\ \A j \in 1 .. numInList : j # i - 1 => Walk[j] # p
    BY <1>1, <2>1, <2>5, WalkFacts, SMTT(30)
  <2>7. /\ next' \in [Item -> Pointer] /\ next'[x] = Walk[i] /\ next'[p] = x
        /\ \A y \in Item \ {x, p} : next'[y] = next[y]
    BY <1>2, <1>5, <2>1, <2>5, <2>6, WalkFacts, Zenon DEF Pointer
  <2>8. PutsBehind(i - 1, x)
    BY <1>1, <1>2, <1>5, <2>1, <2>5, <2>6, <2>7, SMTT(30) DEF PutsBehind, Adding
  <2> QED BY <1>2, <2>1, <2>3, <2>4, <2>8
<1>6. CASE ~IsEmpty /\ ~Less(x, first) /\ Successors(x) = {} /\ AtEnd(x)
  <2>1. PutsBehind(numInList, x)
    BY <1>1, <1>6, EndsOfList, Zenon
  <2>2. ~(Key[x] < Key[Walk[1]])
    BY <1>6, WalkFacts DEF IsEmpty, Less
  <2>3. \A i \in 2 .. numInList : ~(Key[x] < Key[Walk[i]])
    BY <1>6, WalkFacts, Zenon DEF Successors, Less
  <2>4. \A i \in 1 .. numInList : Key[Walk[i]] <= Key[x]
    BY <1>2, <2>2, <2>3
  <2> QED BY <1>2, <2>1, <2>4
<1> QED BY <1>3, <1>4, <1>5, <1>6, Zenon DEF Insert

(* SortedList::Insert keeps the invariant and the order of the keys.       *)
LEMMA InsertStep ==
    ASSUME SetFacts, ListInv, NEW x \in Item, Insert(x)
    PROVE  ListInv' /\ L!Insert(x)
<1>1. Adding(x) /\ sorted /\ \A i \in 1 .. numInList : Walk[i] # x
  BY EndsOfList, Zenon DEF Insert
<1>2. PICK k \in 0 .. numInList :
              /\ PutsBehind(k, x)
              /\ \A i \in 1 .. k : Key[Walk[i]] <= Key[x]
              /\ \A i \in k + 1 .. numInList : Key[x] < Key[Walk[i]]
  BY InsertPlace, Zenon
<1>3. ListInv' /\ Walk' = Put(Walk, numInList, k, x)
  BY <1>1, <1>2, PutStep, Zenon
<1>4. Walk' = SubSeq(Walk, 1, k) \o <<x>> \o SubSeq(Walk, k + 1, numInList)
  <2>1. numInList \in Nat /\ Walk \in [1 .. numInList -> Item]
    BY WalkFacts, Zenon
  <2> QED BY <1>3, <2>1, PutIs, Zenon
<1>5. \A i \in k + 1 .. numInList : Key[Walk[i]] > Key[x]
  BY <1>2, Zenon
<1> QED BY <1>1, <1>2, <1>3, <1>4, <1>5, WalkFacts, Zenon DEF L!Insert, L!New, Adding

(* Both branches of DropFirst take the first element.                      *)
LEMMA DropFirstTakes ==
    ASSUME ListInv, ~IsEmpty, DropFirst, numInList' = numInList - 1, UNCHANGED sorted
    PROVE  1 \in 1 .. numInList /\ TakesOut(1)
<1>1. numInList > 0 /\ first = Walk[1] /\ last = Walk[numInList]
  BY WalkFacts DEF IsEmpty
<1>2. first = last <=> numInList = 1
  BY <1>1, WalkFacts
<1>3. numInList > 1 => next[first] = Walk[2]
  BY <1>1, WalkFacts
<1> QED BY <1>1, <1>2, <1>3, WalkFacts DEF DropFirst, TakesOut

(* List::RemoveFront keeps the invariant and takes the first item.         *)
LEMMA RemoveFrontStep ==
    ASSUME SetFacts, ListInv, RemoveFront
    PROVE  ListInv' /\ L!RemoveFront
<1>1. 1 \in 1 .. numInList /\ TakesOut(1)
  BY DropFirstTakes, Zenon DEF RemoveFront
<1>2. ListInv' /\ Walk' = Take(Walk, numInList, 1)
  BY <1>1, TakeStep, Zenon
<1>3. numInList \in Nat \ {0} /\ Walk \in [1 .. numInList -> Item] /\ first = Walk[1]
  BY <1>1, WalkFacts
<1>4. Walk' = Tail(Walk)
  BY <1>2, <1>3, TailIs, Zenon
<1>5. Walk # << >> /\ Head(Walk) = Walk[1]
  BY <1>3, SeqIs
<1> QED BY <1>2, <1>3, <1>4, <1>5, Zenon DEF RemoveFront, L!RemoveFront

(* List::Remove keeps the invariant and takes that item.                   *)
LEMMA RemoveStep ==
    ASSUME SetFacts, ListInv, NEW x \in Item, Remove(x)
    PROVE  ListInv' /\ L!Remove(x)
<1>1. \E k \in 1 .. numInList : Walk[k] = x /\ TakesOut(k)
  <2>1. PICK k \in 1 .. numInList : Walk[k] = x
    BY WalkFacts, Zenon DEF Remove, IsInList
  <2>2. CASE x = first /\ DropFirst
    <3>1. ~IsEmpty
      BY <2>1, WalkFacts DEF IsEmpty
    <3>2. 1 \in 1 .. numInList /\ TakesOut(1)
      BY <2>2, <3>1, DropFirstTakes, Zenon DEF Remove
    <3>3. Walk[1] = x
      BY <2>2, <3>2, WalkFacts
    <3> QED BY <3>2, <3>3, Zenon
  <2>3. CASE x # first /\ Unlink(x)
    <3>1. PICK i \in 2 .. numInList :
                /\ Walk[i] = x
                /\ next' = [next EXCEPT ![Walk[i - 1]] = next[x]]
                /\ last' = IF next[x] = Nil THEN Walk[i - 1] ELSE last
                /\ UNCHANGED first
      BY <2>3, WalkFacts, Zenon DEF Unlink
    <3>2. PICK p \in Item : p = Walk[i - 1]
      BY <3>1, WalkFacts
    <3>3. next[x] = IF i = numInList THEN Nil ELSE Walk[i + 1]
      BY <3>1, WalkFacts, SMTT(30)
    <3>4. i < numInList => next[x] \in Item /\ next[x] # Nil
      BY <3>1, <3>3, WalkFacts, ListAssumption
    <3>5. /\ next' \in [Item -> Pointer] /\ next'[p] = next[x]
          /\ \A y \in Item \ {p} : next'[y] = next[y]
      BY <3>1, <3>2, WalkFacts, Zenon
    <3>6. \A j \in 1 .. numInList : j # i - 1 => Walk[j] # p /\ Walk[j] \in Item
      BY <3>1, <3>2, WalkFacts
    <3>7. numInList' = numInList - 1 /\ sorted' = sorted
      BY Zenon DEF Remove
    <3>8. TakesOut(i)
      BY <3>1, <3>2, <3>3, <3>4, <3>5, <3>6, <3>7, WalkFacts, SMTT(30) DEF TakesOut
    <3> QED BY <3>1, <3>8, WalkFacts
  <2> QED BY <2>2, <2>3, Zenon DEF Remove
<1>2. PICK k \in 1 .. numInList : Walk[k] = x /\ TakesOut(k)
  BY <1>1, Zenon
<1>3. ListInv' /\ Walk' = Take(Walk, numInList, k)
  BY <1>2, TakeStep, Zenon
<1>4. Walk' = SubSeq(Walk, 1, k - 1) \o SubSeq(Walk, k + 1, numInList)
  <2>1. numInList \in Nat /\ Walk \in [1 .. numInList -> Item]
    BY WalkFacts, Zenon
  <2> QED BY <1>3, <2>1, TakeIs, Zenon
<1> QED BY <1>2, <1>3, <1>4, WalkFacts, Zenon DEF L!Remove, Remove

(* The new list is empty.                                                  *)
LEMMA ListInitInv ==
    ASSUME SetFacts, ListInit
    PROVE  ListInv /\ L!Init
<1> DEFINE s == [i \in 1 .. 0 |-> Nil]
<1>1. s \in [1 .. 0 -> Item] /\ s = << >>
  OBVIOUS
<1>2. Follows(s, 0, first, next)
  BY <1>1 DEF Follows, ListInit, Pointer
<1>3. Walk = s
  BY <1>2, PathIs, Zenon DEF Walk
<1>4. Linked(s, 0, first, last, next, sorted)
  BY <1>2 DEF Linked, ListInit
<1> QED BY <1>1, <1>3, <1>4, Zenon DEF ListInv, ListInit, L!Init

(* The invariant is more than the SanityChecks look at.                    *)
LEMMA ListInvSane == ListInv => SanityCheck
<1> HAVE ListInv
<1>1. sorted => \A i \in 2 .. numInList : ~Less(Walk[i], Walk[i - 1])
  <2> SUFFICES ASSUME sorted, NEW i \in 2 .. numInList PROVE ~Less(Walk[i], Walk[i - 1])
    BY Zenon
  <2>1. Key[Walk[i - 1]] <= Key[Walk[i]]
    BY WalkFacts
  <2>2. Key[Walk[i - 1]] \in Int /\ Key[Walk[i]] \in Int
    <3>1. Walk[i - 1] \in Item /\ Walk[i] \in Item
      BY WalkFacts
    <3> QED BY <3>1, ListAssumption, Zenon
  <2> QED BY <2>1, <2>2 DEF Less
<1> QED BY <1>1, WalkFacts, Zenon DEF SanityCheck

(* An operation on the list is the operation of its name on the sequence.  *)
Matches ==
    \A x \in Item : /\ Append_(x) => L!Append_(x)
                    /\ Prepend(x) => L!Prepend(x)
                    /\ Insert(x) => L!Insert(x)
                    /\ Remove(x) => L!Remove(x)

(* A step of the list is a step of the sequence.                           *)
LEMMA ListStep ==
    ASSUME SetFacts, ListInv, [ListNext]_listVars
    PROVE  ListInv' /\ [L!Next]_(L!listVars) /\ Matches
<1>1. Matches
  BY AppendStep, PrependStep, InsertStep, RemoveStep, Zenon DEF Matches
<1>2. CASE UNCHANGED listVars
  <2>1. Walk' = Walk
    BY <1>2, Zenon DEF listVars, Walk
  <2> QED BY <1>1, <1>2, <2>1, Zenon DEF listVars, ListInv, L!listVars
<1>3. CASE ListNext
  BY <1>1, <1>3, RemoveFrontStep, AppendStep, PrependStep, InsertStep, RemoveStep, Zenon
     DEF ListNext, L!Next
<1> QED BY <1>1, <1>2, <1>3, Zenon
-----------------------------------------------------------------------------
(* What Append adds to a list.                                             *)
LEMMA AppendElems ==
    ASSUME NEW S, NEW q \in Seq(S), NEW e \in S
    PROVE  /\ Append(q, e) \in Seq(S)
           /\ Append(q, e) # << >>
           /\ Elems(Append(q, e)) = Elems(q) \cup {e}
           /\ NoDuplicates(q) /\ e \notin Elems(q) => NoDuplicates(Append(q, e))
<1>1. /\ Append(q, e) \in Seq(S) /\ Append(q, e) # << >>
      /\ Len(Append(q, e)) = Len(q) + 1 /\ Len(q) \in Nat
      /\ \A i \in 1..Len(q) : i \in 1..Len(q) + 1 /\ Append(q, e)[i] = q[i]
      /\ Append(q, e)[Len(q) + 1] = e
  OBVIOUS
<1>2. Elems(Append(q, e)) = Elems(q) \cup {e}
  BY <1>1 DEF Elems
<1>3. NoDuplicates(q) /\ e \notin Elems(q) => NoDuplicates(Append(q, e))
  BY <1>1 DEF Elems, NoDuplicates
<1> QED BY <1>1, <1>2, <1>3, Zenon

(* What Tail takes from a list without duplicates.                         *)
LEMMA TailElems ==
    ASSUME NEW S, NEW q \in Seq(S), q # << >>, NoDuplicates(q)
    PROVE  /\ Head(q) \in S /\ Head(q) \in Elems(q)
           /\ Tail(q) \in Seq(S) /\ NoDuplicates(Tail(q))
           /\ Elems(Tail(q)) = Elems(q) \ {Head(q)}
<1>1. /\ Len(Tail(q)) = Len(q) - 1 /\ Len(q) \in Nat \ {0} /\ Head(q) = q[1]
      /\ \A i \in 1..Len(q) - 1 : Tail(q)[i] = q[i + 1]
      /\ \A i \in 2..Len(q) : i - 1 \in 1..Len(q) - 1 /\ q[i] = Tail(q)[i - 1]
  OBVIOUS
<1>2. NoDuplicates(Tail(q))
  BY <1>1 DEF NoDuplicates
<1>3. Elems(q) = Elems(Tail(q)) \cup {Head(q)}
  <2>1. ASSUME NEW x \in Elems(q), x # Head(q) PROVE x \in Elems(Tail(q))
    <3>1. PICK i \in 2..Len(q) : x = q[i]
      BY <1>1, <2>1 DEF Elems
    <3> QED BY <1>1, <3>1, Zenon DEF Elems
  <2>2. Head(q) \in Elems(q) /\ Elems(Tail(q)) \subseteq Elems(q)
    BY <1>1 DEF Elems
  <2> QED BY <2>1, <2>2, Zenon
<1>4. Head(q) \notin Elems(Tail(q))
  BY <1>1 DEF Elems, NoDuplicates
<1> QED BY <1>2, <1>3, <1>4

(* What the position of a thread in the kernel says of its status and of   *)
(* the scheduler's variables.  Together with TypeOK and OnePlace it is     *)
(* inductive.                                                              *)
Shape ==
    /\ \A t \in Thread :
          /\ status[t] = "NONE" <=> at[t] = "none"
          /\ at[t] = "P" <=> waitOn[t] # NULL
          /\ at[t] = "code" => t = currentThread /\ status[t] = "RUNNING"
          /\ at[t] \in {"begin", "yield"} => status[t] \in {"READY", "RUNNING"}
          /\ at[t] = "finish" => /\ status[t] = "BLOCKED"
                                 /\ t \in {currentThread, toBeDestroyed}
    /\ status[currentThread] # "NONE"
    /\ status[currentThread] = "READY" => at[currentThread] = "P"
    /\ toBeDestroyed # NULL => /\ at[toBeDestroyed] = "finish"
                               /\ toBeDestroyed # currentThread
                               /\ status[currentThread] = "RUNNING"
                               /\ at[currentThread] # "code"

IInv == TypeOK /\ OnePlace /\ Shape

-----------------------------------------------------------------------------
(* The state after Kernel::Initialize satisfies the inductive invariant.   *)
LEMMA InitIInv == Init => IInv
<1> SUFFICES ASSUME Init PROVE IInv
  BY Zenon
<1> USE ThreadsAssumption DEF Init
<1>1. TypeOK
  BY DEF TypeOK, Status, Place
<1>2. Elems(<< >>) = {} /\ NoDuplicates(<< >>)
  BY DEF Elems, NoDuplicates
<1>3. OnePlace
  BY <1>2, Zenon DEF OnePlace
<1>4. Shape
  BY Zenon DEF Shape
<1> QED BY <1>1, <1>3, <1>4, Zenon DEF IInv

(* A call of Semaphore::P that takes a unit or goes to sleep keeps IInv.   *)
LEMMA PStep ==
    ASSUME IInv, NEW s \in Sem, P(s)
    PROVE  IInv'
<1> DEFINE c == currentThread
<1>0. TypeOK /\ OnePlace /\ Shape /\ Executing
  BY Zenon DEF IInv, P
<1>1. CASE value[s] # 0 /\ value' = [value EXCEPT ![s] = @ - 1]
           /\ UNCHANGED <<queue, waitOn, status, at, currentThread,
                          readyList, toBeDestroyed>>
  <2>1. TypeOK'
    BY <1>0, <1>1 DEF TypeOK
  <2>2. OnePlace' /\ Shape'
    BY <1>0, <1>1, Zenon DEF OnePlace, Shape
  <2> QED BY <2>1, <2>2, Zenon DEF IInv
<1>2. CASE /\ queue' = [queue EXCEPT ![s] = Append(@, c)]
           /\ waitOn' = [waitOn EXCEPT ![c] = s]
           /\ status' = [status EXCEPT ![c] = "BLOCKED"]
           /\ at' = [at EXCEPT ![c] = "P"]
           /\ UNCHANGED <<value, currentThread, readyList, toBeDestroyed>>
  <2>1. /\ c \in Thread /\ status[c] = "RUNNING" /\ at[c] = "code"
        /\ waitOn[c] = NULL /\ toBeDestroyed = NULL
    BY <1>0, Zenon DEF TypeOK, Shape, Executing
  <2>2. c \notin Elems(readyList) /\ c \notin Elems(queue[s])
    BY <1>0, <2>1, Zenon DEF OnePlace
  <2>3. /\ queue'[s] \in Seq(Thread)
        /\ Elems(queue'[s]) = Elems(queue[s]) \cup {c}
        /\ NoDuplicates(queue'[s])
        /\ \A r \in Sem : r # s => queue'[r] = queue[r]
    BY <1>0, <1>2, <2>1, <2>2, AppendElems DEF TypeOK, OnePlace
  <2>4. TypeOK'
    BY <1>0, <1>2, <2>1, <2>3, Zenon DEF TypeOK, Status, Place
  <2>5. OnePlace'
    <3>1. ASSUME NEW r \in Sem
          PROVE  /\ Elems(queue'[r]) = {t \in Thread : waitOn'[t] = r
                                                /\ status'[t] = "BLOCKED"}
                 /\ NoDuplicates(queue'[r])
      BY <1>0, <1>2, <2>1, <2>3 DEF OnePlace, TypeOK
    <3>2. Elems(readyList') = {t \in Thread : status'[t] = "READY"}
      BY <1>0, <1>2, <2>1, Zenon DEF OnePlace, TypeOK
    <3> QED BY <1>0, <1>2, <3>1, <3>2, Zenon DEF OnePlace, TypeOK
  <2>6. Shape'
    BY <1>0, <1>2, <2>1, ThreadsAssumption, Zenon DEF Shape, TypeOK
  <2> QED BY <2>4, <2>5, <2>6, Zenon DEF IInv
<1> QED BY <1>1, <1>2, Zenon DEF P

(* A call of Semaphore::V, which may make a sleeper ready, keeps IInv.     *)
LEMMA SignalStep ==
    ASSUME IInv, NEW s \in Sem, Signal(s)
    PROVE  IInv'
<1> DEFINE h == Head(queue[s])
<1>0. TypeOK /\ OnePlace /\ Shape
  BY Zenon DEF IInv
<1>1. CASE /\ value' = [value EXCEPT ![s] = @ + 1]
           /\ UNCHANGED <<queue, readyList, status, currentThread,
                          toBeDestroyed, at, waitOn>>
  <2>1. TypeOK'
    BY <1>0, <1>1 DEF TypeOK
  <2>2. OnePlace' /\ Shape'
    BY <1>0, <1>1, Zenon DEF OnePlace, Shape
  <2> QED BY <2>1, <2>2 DEF IInv
<1>2. CASE /\ queue[s] # << >>
           /\ value' = [value EXCEPT ![s] = @ + 1]
           /\ queue' = [queue EXCEPT ![s] = Tail(@)]
           /\ readyList' = Append(readyList, h)
           /\ status' = [status EXCEPT ![h] = "READY"]
           /\ UNCHANGED <<currentThread, toBeDestroyed, at, waitOn>>
  <2>1. /\ h \in Thread /\ h \in Elems(queue[s])
        /\ queue'[s] \in Seq(Thread)
        /\ Elems(queue'[s]) = Elems(queue[s]) \ {h}
        /\ NoDuplicates(queue'[s])
        /\ \A r \in Sem : r # s => queue'[r] = queue[r]
    BY <1>0, <1>2, TailElems, Zenon DEF TypeOK, OnePlace
  <2>2. /\ status[h] = "BLOCKED" /\ waitOn[h] = s /\ at[h] = "P"
        /\ h \notin Elems(readyList)
    BY <1>0, <2>1, ThreadsAssumption, SMTT(30) DEF OnePlace, Shape
  <2>3. /\ readyList' \in Seq(Thread)
        /\ Elems(readyList') = Elems(readyList) \cup {h}
        /\ NoDuplicates(readyList')
    BY <1>0, <1>2, <2>1, <2>2, AppendElems, SMTT(30) DEF TypeOK, OnePlace
  <2>4. TypeOK'
    BY <1>0, <1>2, <2>1, <2>3, SMTT(30) DEF TypeOK, Status
  <2>5. OnePlace'
    <3>1. ASSUME NEW r \in Sem
          PROVE  /\ Elems(queue'[r]) = {t \in Thread : waitOn'[t] = r
                                                /\ status'[t] = "BLOCKED"}
                 /\ NoDuplicates(queue'[r])
      BY <1>0, <1>2, <2>1, <2>2, SMTT(30) DEF OnePlace, TypeOK
    <3>2. Elems(readyList') = {t \in Thread : status'[t] = "READY"}
      BY <1>0, <1>2, <2>1, <2>3, SMTT(30) DEF OnePlace, TypeOK
    <3> QED BY <1>0, <1>2, <2>3, <3>1, <3>2, Zenon DEF OnePlace, TypeOK
  <2>6. Shape'
    BY <1>0, <1>2, <2>1, <2>2, Zenon DEF Shape, TypeOK
  <2> QED BY <2>4, <2>5, <2>6, Zenon DEF IInv
<1> QED BY <1>1, <1>2, Zenon DEF Signal

(* Thread::Fork, which puts a new thread on the ready list, keeps IInv.    *)
LEMMA ForkStep ==
    ASSUME IInv, NEW u \in Thread, Fork(u)
    PROVE  IInv'
<1>0. TypeOK /\ OnePlace /\ Shape /\ Fork(u)
  BY Zenon DEF IInv
<1>1. /\ status[u] = "NONE" /\ at[u] = "none" /\ waitOn[u] = NULL
      /\ u # currentThread /\ u # toBeDestroyed
      /\ u \notin Elems(readyList)
  BY <1>0, ThreadsAssumption DEF Fork, Shape, OnePlace, TypeOK
<1>2. /\ readyList' \in Seq(Thread)
      /\ Elems(readyList') = Elems(readyList) \cup {u}
      /\ NoDuplicates(readyList')
  BY <1>0, <1>1, AppendElems DEF Fork, TypeOK, OnePlace
<1>3. TypeOK'
  BY <1>0, <1>2 DEF Fork, TypeOK, Status, Place
<1>4. OnePlace'
  <2>1. ASSUME NEW r \in Sem
        PROVE  /\ Elems(queue'[r]) = {t \in Thread : waitOn'[t] = r
                                              /\ status'[t] = "BLOCKED"}
               /\ NoDuplicates(queue'[r])
    BY <1>0, <1>1 DEF Fork, OnePlace, TypeOK
  <2>2. Elems(readyList') = {t \in Thread : status'[t] = "READY"}
    BY <1>0, <1>2, SMTT(30) DEF Fork, OnePlace, TypeOK
  <2> QED BY <1>0, <1>1, <1>2, <2>1, <2>2 DEF Fork, OnePlace, TypeOK
<1>5. Shape'
  BY <1>0, <1>1 DEF Fork, Shape, TypeOK
<1> QED BY <1>3, <1>4, <1>5, Zenon DEF IInv

(* Thread::Yield, by the thread itself or the timer, keeps IInv.           *)
LEMMA YieldStep ==
    ASSUME IInv, Yield
    PROVE  IInv'
<1> DEFINE c == currentThread
           h == Head(readyList)
<1>0. TypeOK /\ OnePlace /\ Shape /\ Yield
  BY Zenon DEF IInv
<1>1. /\ c \in Thread /\ status[c] = "RUNNING" /\ at[c] = "code"
      /\ toBeDestroyed = NULL /\ waitOn[c] = NULL
  BY <1>0, Zenon DEF Yield, Executing, Shape, TypeOK
<1>2. /\ h \in Thread /\ h \in Elems(readyList)
      /\ Tail(readyList) \in Seq(Thread)
      /\ Elems(Tail(readyList)) = Elems(readyList) \ {h}
      /\ NoDuplicates(Tail(readyList))
  BY <1>0, TailElems, Zenon DEF Yield, TypeOK, OnePlace
<1>3. status[h] = "READY" /\ h # c /\ c \notin Elems(readyList)
  BY <1>0, <1>1, <1>2, Zenon DEF OnePlace
<1>4. /\ readyList' \in Seq(Thread)
      /\ Elems(readyList') = (Elems(readyList) \ {h}) \cup {c}
      /\ NoDuplicates(readyList')
  <2>1. PICK q \in Seq(Thread) : q = Tail(readyList)
    BY <1>2, Zenon
  <2>2. /\ Elems(q) = Elems(readyList) \ {h} /\ NoDuplicates(q)
        /\ c \notin Elems(q) /\ readyList' = Append(q, c)
    BY <1>0, <1>2, <1>3, <2>1, Zenon DEF Yield
  <2> HIDE DEF c, h
  <2> QED BY <1>1, <2>2, AppendElems
<1>5. /\ status' = [status EXCEPT ![c] = "READY", ![h] = "RUNNING"]
      /\ at' = [at EXCEPT ![c] = "yield"]
      /\ currentThread' = h
      /\ UNCHANGED <<toBeDestroyed, value, queue, waitOn>>
  BY <1>0, Zenon DEF Yield
<1>6. TypeOK'
  BY <1>0, <1>2, <1>4, <1>5, Zenon DEF TypeOK, Status, Place
<1>7. OnePlace'
  <2>1. ASSUME NEW r \in Sem
        PROVE  /\ Elems(queue'[r]) = {t \in Thread : waitOn'[t] = r
                                              /\ status'[t] = "BLOCKED"}
               /\ NoDuplicates(queue'[r])
    BY <1>0, <1>1, <1>3, <1>5, Zenon DEF OnePlace, TypeOK
  <2>2. Elems(readyList') = {t \in Thread : status'[t] = "READY"}
    BY <1>0, <1>1, <1>2, <1>3, <1>4, <1>5 DEF OnePlace, TypeOK
  <2>3. \A t \in Thread : status'[t] = "RUNNING" => t = currentThread'
    BY <1>0, <1>1, <1>3, <1>5, Zenon DEF OnePlace, TypeOK
  <2> QED BY <1>4, <2>1, <2>2, <2>3, Zenon DEF OnePlace
<1>8. Shape'
  BY <1>0, <1>1, <1>2, <1>3, <1>5, ThreadsAssumption DEF Shape, TypeOK
<1> QED BY <1>6, <1>7, <1>8, Zenon DEF IInv

(* Thread::Finish, which leaves a thread to be destroyed, keeps IInv.      *)
LEMMA FinishStep ==
    ASSUME IInv, Finish
    PROVE  IInv'
<1>0. TypeOK /\ OnePlace /\ Shape /\ Finish
  BY Zenon DEF IInv
<1>1. /\ currentThread \in Thread /\ status[currentThread] = "RUNNING"
      /\ toBeDestroyed = NULL /\ waitOn[currentThread] = NULL
  BY <1>0, Zenon DEF Finish, Executing, Shape, TypeOK
<1>2. TypeOK'
  BY <1>0, Zenon DEF Finish, TypeOK, Status, Place
<1>3. OnePlace'
  <2>1. ASSUME NEW r \in Sem
        PROVE  /\ Elems(queue'[r]) = {t \in Thread : waitOn'[t] = r
                                              /\ status'[t] = "BLOCKED"}
               /\ NoDuplicates(queue'[r])
    BY <1>0, <1>1, ThreadsAssumption DEF Finish, OnePlace, TypeOK
  <2> QED BY <1>0, <1>1, <2>1 DEF Finish, OnePlace, TypeOK
<1>4. Shape'
  BY <1>0, <1>1 DEF Finish, Shape, TypeOK
<1> QED BY <1>2, <1>3, <1>4 DEF IInv

(* Thread::Sleep, which runs the next ready thread, keeps IInv.            *)
LEMMA SleepRunStep ==
    ASSUME IInv, SleepRun
    PROVE  IInv'
<1> DEFINE c == currentThread
           h == Head(readyList)
<1>0. TypeOK /\ OnePlace /\ Shape /\ SleepRun
  BY Zenon DEF IInv
<1>1. /\ c \in Thread /\ status[c] # "RUNNING" /\ at[c] \in {"P", "finish"}
      /\ toBeDestroyed = NULL
  BY <1>0, Zenon DEF SleepRun, Sleeping, Shape, TypeOK
<1>2. /\ h \in Thread /\ h \in Elems(readyList)
      /\ readyList' \in Seq(Thread)
      /\ Elems(readyList') = Elems(readyList) \ {h}
      /\ NoDuplicates(readyList')
  BY <1>0, TailElems DEF SleepRun, TypeOK, OnePlace
<1>3. /\ status[h] = "READY"
      /\ at[h] # "finish" /\ at[h] # "none" /\ at[h] # "code"
      /\ at[c] = "finish" => h # c
  BY <1>0, <1>1, <1>2, Zenon DEF OnePlace, Shape
<1>4. /\ status' = [status EXCEPT ![h] = "RUNNING"]
      /\ currentThread' = h
      /\ toBeDestroyed' = IF at[c] = "finish" THEN c ELSE toBeDestroyed
      /\ UNCHANGED <<at, value, queue, waitOn>>
  BY <1>0, Zenon DEF SleepRun
<1>5. TypeOK'
  BY <1>0, <1>1, <1>2, <1>4, Zenon DEF TypeOK, Status
<1>6. OnePlace'
  <2>1. ASSUME NEW r \in Sem
        PROVE  /\ Elems(queue'[r]) = {t \in Thread : waitOn'[t] = r
                                              /\ status'[t] = "BLOCKED"}
               /\ NoDuplicates(queue'[r])
    BY <1>0, <1>3, <1>4, Zenon DEF OnePlace, TypeOK
  <2>2. Elems(readyList') = {t \in Thread : status'[t] = "READY"}
    BY <1>0, <1>2, <1>3, <1>4, Zenon DEF OnePlace, TypeOK
  <2>3. \A t \in Thread : status'[t] = "RUNNING" => t = currentThread'
    BY <1>0, <1>1, <1>4, Zenon DEF OnePlace, TypeOK
  <2> QED BY <1>2, <2>1, <2>2, <2>3, Zenon DEF OnePlace
<1>7. Shape'
  BY <1>0, <1>1, <1>2, <1>3, <1>4, ThreadsAssumption, SMTT(30) DEF Shape, TypeOK
<1> QED BY <1>5, <1>6, <1>7, Zenon DEF IInv

(* The carcass, when there is one, is blocked in Finish and in no list.    *)
LEMMA Carcass ==
    ASSUME IInv, toBeDestroyed # NULL
    PROVE  /\ toBeDestroyed \in Thread
           /\ toBeDestroyed # currentThread
           /\ at[toBeDestroyed] = "finish"
           /\ status[toBeDestroyed] = "BLOCKED"
           /\ waitOn[toBeDestroyed] = NULL
           /\ toBeDestroyed \notin Elems(readyList)
           /\ \A s \in Sem : toBeDestroyed \notin Elems(queue[s])
BY ThreadsAssumption DEF IInv, TypeOK, Shape, OnePlace

(* What CheckToBeDestroyed leaves of the statuses and the places.          *)
LEMMA Swept ==
    ASSUME IInv,
           NEW st, st = CheckToBeDestroyed(status, "NONE"),
           NEW pl, pl = CheckToBeDestroyed(at, "none")
    PROVE  /\ st \in [Thread -> Status] /\ pl \in [Thread -> Place]
           /\ \A t \in Thread \ {toBeDestroyed} : st[t] = status[t] /\ pl[t] = at[t]
           /\ toBeDestroyed # NULL =>
                 st[toBeDestroyed] = "NONE" /\ pl[toBeDestroyed] = "none"
<1>1. CASE toBeDestroyed = NULL
  BY <1>1, Zenon DEF CheckToBeDestroyed, IInv, TypeOK
<1>2. CASE toBeDestroyed # NULL
  <2>1. /\ st = [status EXCEPT ![toBeDestroyed] = "NONE"]
        /\ pl = [at EXCEPT ![toBeDestroyed] = "none"]
    BY <1>2, Zenon DEF CheckToBeDestroyed
  <2>2. /\ toBeDestroyed \in Thread
        /\ status \in [Thread -> Status] /\ at \in [Thread -> Place]
    BY <1>2, Carcass, Zenon DEF IInv, TypeOK
  <2>3. "NONE" \in Status /\ "none" \in Place
    BY Zenon DEF Status, Place
  <2> QED BY <2>1, <2>2, <2>3, Zenon
<1> QED BY <1>1, <1>2, Zenon

(* A thread that comes back from SWITCH, and destroys the carcass, keeps   *)
(* IInv.                                                                   *)
LEMMA ReturnStep ==
    ASSUME IInv, Return
    PROVE  IInv'
<1> DEFINE c == currentThread
           d == toBeDestroyed
<1>0. TypeOK /\ OnePlace /\ Shape /\ Return
  BY Zenon DEF IInv
<1>1. /\ c \in Thread /\ status[c] = "RUNNING" /\ at[c] # "P"
      /\ waitOn[c] = NULL
  BY <1>0, Zenon DEF Return, Switched, Shape, TypeOK
<1>2. TypeOK'
  BY <1>0, ThreadsAssumption
  DEF Return, CheckToBeDestroyed, TypeOK, Status, Place
<1>3. OnePlace'
  <2>1. CASE d = NULL
    BY <1>0, <2>1, SMTT(30) DEF Return, CheckToBeDestroyed, OnePlace
  <2>2. CASE d # NULL
    BY <1>0, <2>2, Carcass, ThreadsAssumption
    DEF Return, CheckToBeDestroyed, OnePlace, TypeOK
  <2> QED BY <2>1, <2>2, Zenon
<1>4. Shape'
  <2>1. PICK st, pl : /\ st = CheckToBeDestroyed(status, "NONE")
                      /\ pl = CheckToBeDestroyed(at, "none")
    BY Zenon
  <2>2. /\ status' = st /\ at' = [pl EXCEPT ![c] = "code"]
        /\ toBeDestroyed' = NULL /\ UNCHANGED <<currentThread, waitOn>>
    BY <1>0, <2>1, Zenon DEF Return
  <2>3. /\ st \in [Thread -> Status] /\ pl \in [Thread -> Place]
        /\ \A t \in Thread \ {d} : st[t] = status[t] /\ pl[t] = at[t]
        /\ d # NULL => st[d] = "NONE" /\ pl[d] = "none"
    BY <2>1, Swept
  <2>4. /\ d # NULL => d \in Thread /\ waitOn[d] = NULL
        /\ d # c
    BY <1>1, Carcass, ThreadsAssumption, Zenon
  <2>5. ASSUME NEW t \in Thread
        PROVE  /\ status'[t] = "NONE" <=> at'[t] = "none"
               /\ at'[t] = "P" <=> waitOn'[t] # NULL
               /\ at'[t] = "code" => t = c /\ status'[t] = "RUNNING"
               /\ at'[t] \in {"begin", "yield"} => status'[t] \in {"READY", "RUNNING"}
               /\ at'[t] # "finish"
    <3>1. CASE t = c
      <4>1. status'[c] = "RUNNING" /\ at'[c] = "code" /\ waitOn'[c] = NULL
        BY <1>1, <2>2, <2>3, <2>4, Zenon
      <4> QED BY <3>1, <4>1, Zenon
    <3>2. CASE t = d
      BY <2>2, <2>3, <2>4, <3>2, ThreadsAssumption, Zenon
    <3>3. CASE t # c /\ t # d
      <4>1. /\ status'[t] = status[t] /\ at'[t] = at[t] /\ waitOn'[t] = waitOn[t]
        BY <2>2, <2>3, <3>3, Zenon
      <4> QED BY <1>0, <3>3, <4>1, Zenon DEF Shape
    <3> QED BY <3>1, <3>2, <3>3, <2>4, Zenon
  <2>6. status'[c] = "RUNNING"
    BY <1>1, <2>2, <2>3, <2>4, Zenon
  <2> QED BY <2>2, <2>5, <2>6, Zenon DEF Shape
<1> QED BY <1>2, <1>3, <1>4, Zenon DEF IInv

(* The new test of the value by a thread woken in P keeps IInv.            *)
LEMMA RetryStep ==
    ASSUME IInv, Retry
    PROVE  IInv'
<1> DEFINE c == currentThread
           d == toBeDestroyed
           s == waitOn[currentThread]
           st == CheckToBeDestroyed(status, "NONE")
           pl == CheckToBeDestroyed(at, "none")
<1>0. TypeOK /\ OnePlace /\ Shape /\ Retry
  BY Zenon DEF IInv
<1>1. /\ c \in Thread /\ status[c] = "RUNNING" /\ at[c] = "P"
      /\ s \in Sem /\ s # NULL /\ d # c
      /\ c \notin Elems(queue[s])
  <2>1. c \in Thread /\ status[c] = "RUNNING" /\ at[c] = "P"
    BY <1>0, Zenon DEF Retry, Switched, TypeOK
  <2>2. s \in Sem /\ s # NULL
    BY <1>0, <2>1, ThreadsAssumption, Zenon DEF Shape, TypeOK
  <2>3. d # c
    BY <2>1, Carcass, ThreadsAssumption, Zenon
  <2>4. c \notin Elems(queue[s])
    BY <1>0, <2>1, <2>2, Zenon DEF OnePlace
  <2> QED BY <2>1, <2>2, <2>3, <2>4, Zenon
<1>2. /\ st \in [Thread -> Status] /\ pl \in [Thread -> Place]
      /\ \A t \in Thread \ {d} : st[t] = status[t] /\ pl[t] = at[t]
      /\ d # NULL => /\ d \in Thread /\ st[d] = "NONE" /\ pl[d] = "none"
                     /\ waitOn[d] = NULL /\ status[d] = "BLOCKED"
  <2>1. PICK a, b : a = st /\ b = pl
    BY Zenon
  <2>2. /\ a \in [Thread -> Status] /\ b \in [Thread -> Place]
        /\ \A t \in Thread \ {d} : a[t] = status[t] /\ b[t] = at[t]
        /\ d # NULL => a[d] = "NONE" /\ b[d] = "none"
    BY <2>1, Swept, SMTT(30)
  <2> QED BY <2>1, <2>2, Carcass, Zenon
<1>3. CASE value[s] # 0
  <2>1. /\ value' = [value EXCEPT ![s] = @ - 1]
        /\ waitOn' = [waitOn EXCEPT ![c] = NULL]
        /\ status' = st /\ at' = [pl EXCEPT ![c] = "code"]
        /\ toBeDestroyed' = NULL
        /\ UNCHANGED <<currentThread, readyList, queue>>
    BY <1>0, <1>3, Zenon DEF Retry
  <2> HIDE DEF st, pl
  <2>2. TypeOK'
    BY <1>0, <1>1, <1>2, <1>3, <2>1, SMTT(30) DEF TypeOK, Place
  <2>3. OnePlace'
    BY <1>0, <1>1, <1>2, <2>1, ThreadsAssumption, SMTT(30) DEF OnePlace, TypeOK
  <2>4. Shape'
    BY <1>0, <1>1, <1>2, <2>1, ThreadsAssumption, SMTT(30) DEF Shape, TypeOK
  <2> QED BY <2>2, <2>3, <2>4 DEF IInv
<1>4. CASE value[s] = 0
  <2>1. /\ queue' = [queue EXCEPT ![s] = Append(@, c)]
        /\ status' = [st EXCEPT ![c] = "BLOCKED"] /\ at' = pl
        /\ toBeDestroyed' = NULL
        /\ UNCHANGED <<currentThread, readyList, value, waitOn>>
    BY <1>0, <1>4, Zenon DEF Retry
  <2> HIDE DEF st, pl
  <2>2. /\ queue[s] \in Seq(Thread) /\ NoDuplicates(queue[s])
    BY <1>0, <1>1, Zenon DEF TypeOK, OnePlace
  <2>3. /\ queue'[s] \in Seq(Thread)
        /\ Elems(queue'[s]) = Elems(queue[s]) \cup {c}
        /\ NoDuplicates(queue'[s])
    <3>1. queue'[s] = Append(queue[s], c)
      BY <1>0, <1>1, <2>1, Zenon DEF TypeOK
    <3> HIDE DEF c, s
    <3> QED BY <1>1, <2>2, <3>1, AppendElems
  <2>4. TypeOK'
    BY <1>0, <1>1, <1>2, <2>1, <2>3, SMTT(30) DEF TypeOK, Status
  <2>5. OnePlace'
    <3>1. ASSUME NEW r \in Sem
          PROVE  /\ Elems(queue'[r]) = {t \in Thread : waitOn'[t] = r
                                                /\ status'[t] = "BLOCKED"}
                 /\ NoDuplicates(queue'[r])
      <4>1. CASE r = s
        BY <1>0, <1>1, <1>2, <2>1, <2>3, <4>1, ThreadsAssumption, SMTT(30)
        DEF OnePlace, TypeOK
      <4>2. CASE r # s
        BY <1>0, <1>1, <1>2, <2>1, <4>2, ThreadsAssumption, SMTT(30)
        DEF OnePlace, TypeOK
      <4> QED BY <4>1, <4>2, Zenon
    <3>2. Elems(readyList') = {t \in Thread : status'[t] = "READY"}
      BY <1>0, <1>1, <1>2, <2>1, ThreadsAssumption, SMTT(30) DEF OnePlace, TypeOK
    <3> QED BY <1>0, <1>1, <1>2, <2>1, <3>1, <3>2, ThreadsAssumption
            DEF OnePlace, TypeOK
  <2>6. Shape'
    <3>1. /\ status'[c] = "BLOCKED" /\ at'[c] = "P" /\ waitOn'[c] # NULL
      BY <1>0, <1>1, <1>2, <2>1, Zenon DEF TypeOK
    <3>2. ASSUME NEW t \in Thread
          PROVE  /\ status'[t] = "NONE" <=> at'[t] = "none"
                 /\ at'[t] = "P" <=> waitOn'[t] # NULL
                 /\ at'[t] # "code" /\ at'[t] # "finish"
                 /\ at'[t] \in {"begin", "yield"} => status'[t] \in {"READY", "RUNNING"}
      <4>1. CASE t = c
        BY <3>1, <4>1, Zenon
      <4>2. CASE t = d
        <5>1. /\ st[t] = "NONE" /\ pl[t] = "none" /\ waitOn[t] = NULL
          BY <1>2, <4>2, ThreadsAssumption, Zenon
        <5> QED BY <1>1, <1>2, <2>1, <4>2, <5>1, Zenon
      <4>3. CASE t # c /\ t # d
        <5>1. status'[t] = status[t] /\ at'[t] = at[t] /\ waitOn'[t] = waitOn[t]
          BY <1>2, <2>1, <4>3, Zenon
        <5> QED BY <1>0, <4>3, <5>1, Zenon DEF Shape
      <4> QED BY <4>1, <4>2, <4>3, Zenon
    <3> QED BY <2>1, <3>1, <3>2, Zenon DEF Shape
  <2> QED BY <2>4, <2>5, <2>6, Zenon DEF IInv
<1> QED BY <1>3, <1>4, Zenon

(* The inductive invariant holds in every reachable state.                 *)
THEOREM Invariance == Spec => []IInv
<1>1. IInv /\ [Next]_vars => IInv'
  <2> SUFFICES ASSUME IInv, [Next]_vars PROVE IInv'
    BY Zenon
  <2>1. ASSUME NEW s \in Sem, P(s) PROVE IInv'
    BY <2>1, PStep, Zenon
  <2>2. ASSUME NEW s \in Sem, V(s) PROVE IInv'
    BY <2>2, SignalStep, Zenon DEF V
  <2>3. ASSUME NEW s \in DeviceSem, DeviceInterrupt(s) PROVE IInv'
    BY <2>3, SignalStep, ThreadsAssumption, SMTT(30) DEF DeviceInterrupt
  <2>4. ASSUME NEW t \in Thread, Fork(t) PROVE IInv'
    BY <2>4, ForkStep, Zenon
  <2>5. CASE UNCHANGED vars
    BY <2>5, Zenon DEF vars, IInv, TypeOK, OnePlace, Shape
  <2> QED BY <2>1, <2>2, <2>3, <2>4, <2>5, YieldStep, FinishStep,
             SleepRunStep, ReturnStep, RetryStep, SMTT(30) DEF Next
<1> QED BY <1>1, InitIInv, PTL DEF Spec

(* Semaphore values stay natural numbers and every variable keeps its      *)
(* type, for any number of threads and semaphores.                         *)
THEOREM TypeCorrect == Spec => []TypeOK
BY Invariance, PTL DEF IInv

(* No thread is ever in two lists, or twice in one: no Append of           *)
(* Scheduler::ReadyToRun or Semaphore::P fails its ASSERT(!IsInList).      *)
THEOREM ThreadInOnePlace == Spec => []OnePlace
BY Invariance, PTL DEF IInv

(* Finish, Run(next, TRUE) and CheckToBeDestroyed never delete a thread    *)
(* that runs or can still be found in a list.                              *)
THEOREM CarcassIsSafe == Spec => []CarcassSafe
<1>1. IInv => CarcassSafe
  <2> SUFFICES ASSUME IInv PROVE CarcassSafe
    BY Zenon
  <2>1. ASSUME Sleeping, at[currentThread] = "finish"
        PROVE  toBeDestroyed = NULL
    BY <2>1, Zenon DEF IInv, Shape, Sleeping
  <2> QED BY <2>1, Carcass, Zenon DEF CarcassSafe
<1> QED BY <1>1, Invariance, PTL

-----------------------------------------------------------------------------
(* NoLostWakeup needs the cardinality of the set of woken threads.         *)

(* The threads woken for a semaphore are finitely many.                    *)
LEMMA WokenFinite ==
    ASSUME SetFacts, NEW s \in Sem
    PROVE  IsFiniteSet(Woken(s)) /\ Cardinality(Woken(s)) \in Nat
<1>1. Woken(s) \subseteq Thread
  BY Zenon DEF Woken
<1> QED BY <1>1, ThreadsAssumption, Zenon DEF SetFacts, SubsetFact, CardinalityFact

(* Where a step neither raises a value, nor starts a queue, nor takes a    *)
(* thread out of the woken ones, nothing can be lost.                      *)
LEMMA WakeupsKept ==
    ASSUME TypeOK, NoLostWakeup, NEW r \in Sem,
           value'[r] = value[r], queue'[r] = queue[r], Woken(r)' = Woken(r)
    PROVE  queue'[r] # << >> => value'[r] <= Cardinality(Woken(r)')
BY Zenon DEF NoLostWakeup

(* No wake-up is lost by a call of Semaphore::P.                           *)
LEMMA WakeupsP ==
    ASSUME SetFacts, IInv, NoLostWakeup, NEW s \in Sem, P(s)
    PROVE  NoLostWakeup'
<1>0. TypeOK /\ OnePlace /\ Shape
  BY Zenon DEF IInv
<1> SUFFICES ASSUME NEW r \in Sem
             PROVE  queue'[r] # << >> => value'[r] <= Cardinality(Woken(r)')
  BY Zenon DEF NoLostWakeup
<1>1. currentThread \in Thread /\ waitOn[currentThread] = NULL
  BY <1>0, Zenon DEF P, Executing, Shape, TypeOK
<1>2. Woken(r)' = Woken(r)
  BY <1>0, <1>1, ThreadsAssumption, Zenon DEF P, Woken, TypeOK
<1>3. CASE value'[r] = 0
  <2>1. Cardinality(Woken(r)') \in Nat
    BY <1>2, WokenFinite, Zenon
  <2> QED BY <1>3, <2>1
<1>4. CASE value'[r] # 0
  <2>1. /\ value[r] \in Nat /\ value'[r] \in Nat /\ value'[r] <= value[r]
        /\ queue'[r] = queue[r]
    <3>1. CASE value[s] # 0
      <4>1. value' = [value EXCEPT ![s] = @ - 1] /\ queue' = queue
        BY <3>1, Zenon DEF P
      <4>2. value \in [Sem -> Nat]
        BY <1>0, Zenon DEF TypeOK
      <4> QED BY <3>1, <4>1, <4>2
    <3>2. CASE value[s] = 0
      <4>1. value' = value /\ queue' = [queue EXCEPT ![s] = Append(@, currentThread)]
        BY <3>2, Zenon DEF P
      <4>2. value[r] \in Nat /\ r # s
        BY <1>0, <1>4, <3>2, <4>1, Zenon DEF TypeOK
      <4> QED BY <1>0, <4>1, <4>2 DEF TypeOK
    <3> QED BY <3>1, <3>2, Zenon
  <2>2. Cardinality(Woken(r)) \in Nat
    BY WokenFinite, Zenon
  <2> QED BY <1>2, <2>1, <2>2 DEF NoLostWakeup
<1> QED BY <1>3, <1>4, Zenon

(* No wake-up is lost by a call of Semaphore::V.                           *)
LEMMA WakeupsSignal ==
    ASSUME SetFacts, IInv, NoLostWakeup, NEW s \in Sem, Signal(s)
    PROVE  NoLostWakeup'
<1> DEFINE h == Head(queue[s])
<1>0. TypeOK /\ OnePlace /\ Shape
  BY Zenon DEF IInv
<1> SUFFICES ASSUME NEW r \in Sem
             PROVE  queue'[r] # << >> => value'[r] <= Cardinality(Woken(r)')
  BY Zenon DEF NoLostWakeup
<1>1. CASE queue[s] = << >>
  <2>1. Woken(r)' = Woken(r) /\ queue' = queue
    BY <1>1, Zenon DEF Signal, Woken
  <2>2. r # s => value'[r] = value[r]
    BY <1>0, Zenon DEF Signal, TypeOK
  <2> QED BY <1>0, <1>1, <2>1, <2>2, WakeupsKept, SMTT(30)
<1>2. CASE queue[s] # << >>
  <2>1. /\ h \in Thread /\ waitOn[h] = s /\ status[h] = "BLOCKED"
    BY <1>0, <1>2, TailElems, Zenon DEF TypeOK, OnePlace
  <2>2. /\ value' = [value EXCEPT ![s] = @ + 1]
        /\ status' = [status EXCEPT ![h] = "READY"]
        /\ waitOn' = waitOn
        /\ queue' = [queue EXCEPT ![s] = Tail(@)]
    BY <1>2, Zenon DEF Signal
  <2>3. CASE r = s
    <3>1. Woken(s)' = Woken(s) \cup {h} /\ h \notin Woken(s)
      BY <1>0, <2>1, <2>2, Zenon DEF Woken, TypeOK
    <3>2. Cardinality(Woken(s) \cup {h}) = Cardinality(Woken(s)) + 1
      BY <3>1, WokenFinite, Zenon DEF SetFacts, AddFact
    <3>3. value[s] <= Cardinality(Woken(s))
      BY <1>2, Zenon DEF NoLostWakeup
    <3>4. value'[s] = value[s] + 1 /\ value[s] \in Nat
      BY <1>0, <2>2, Zenon DEF TypeOK
    <3>5. Cardinality(Woken(s)) \in Nat
      BY WokenFinite, Zenon
    <3> QED BY <2>3, <3>1, <3>2, <3>3, <3>4, <3>5
  <2>4. CASE r # s
    <3>1. value'[r] = value[r] /\ queue'[r] = queue[r]
      BY <1>0, <2>2, <2>4, Zenon DEF TypeOK
    <3>2. Woken(r)' = Woken(r)
      BY <1>0, <2>1, <2>2, <2>4, SMTT(30) DEF Woken, TypeOK
    <3> QED BY <1>0, <3>1, <3>2, WakeupsKept, Zenon
  <2> QED BY <2>3, <2>4, Zenon
<1> QED BY <1>1, <1>2, ZenonT(30)

(* No wake-up is lost by the new test of a thread woken in P.              *)
LEMMA WakeupsRetry ==
    ASSUME SetFacts, IInv, NoLostWakeup, Retry
    PROVE  NoLostWakeup'
<1> DEFINE c == currentThread
           s == waitOn[currentThread]
<1>0. TypeOK /\ OnePlace /\ Shape /\ Retry
  BY Zenon DEF IInv
<1>1. /\ c \in Thread /\ status[c] = "RUNNING" /\ s \in Sem /\ s # NULL
  BY <1>0, ThreadsAssumption, Zenon DEF Retry, Switched, Shape, TypeOK
<1>2. \A t \in Thread : t # toBeDestroyed =>
          CheckToBeDestroyed(status, "NONE")[t] = status[t]
  BY <1>0, Zenon DEF CheckToBeDestroyed, TypeOK
<1>3. toBeDestroyed # NULL =>
          waitOn[toBeDestroyed] = NULL /\ toBeDestroyed # currentThread
  BY Carcass, Zenon
<1>4. CheckToBeDestroyed(status, "NONE") \in [Thread -> Status]
  BY <1>0, Zenon DEF CheckToBeDestroyed, TypeOK, Status
<1> SUFFICES ASSUME NEW r \in Sem
             PROVE  queue'[r] # << >> => value'[r] <= Cardinality(Woken(r)')
  BY Zenon DEF NoLostWakeup
<1>5. value[r] \in Nat /\ Cardinality(Woken(r)) \in Nat
  BY <1>0, WokenFinite, Zenon DEF TypeOK
<1>6. CASE value[s] # 0
  <2>1. /\ value' = [value EXCEPT ![s] = @ - 1]
        /\ waitOn' = [waitOn EXCEPT ![c] = NULL]
        /\ status' = CheckToBeDestroyed(status, "NONE")
        /\ queue' = queue
    BY <1>0, <1>6, Zenon DEF Retry
  <2>2. Woken(r)' = Woken(r) \ {c}
    BY <1>0, <1>1, <1>2, <1>3, <1>4, <2>1, ThreadsAssumption, SMTT(30) DEF Woken, TypeOK
  <2>3. CASE r = s
    <3>1. c \in Woken(s)
      BY <1>1, Zenon DEF Woken
    <3>2. Cardinality(Woken(s) \ {c}) = Cardinality(Woken(s)) - 1
      BY <1>1, <3>1, WokenFinite, Zenon DEF SetFacts, RemoveFact
    <3>3. value'[s] = value[s] - 1
      BY <1>0, <1>1, <2>1, Zenon DEF TypeOK
    <3>4. queue[s] # << >> => value[s] <= Cardinality(Woken(s))
      BY <1>1, Zenon DEF NoLostWakeup
    <3>5. queue[s] # << >> => value[s] - 1 <= Cardinality(Woken(s)) - 1
      BY <1>5, <2>3, <3>4
    <3> QED BY <2>1, <2>2, <2>3, <3>2, <3>3, <3>5, Zenon
  <2>4. CASE r # s
    <3>1. c \notin Woken(r)
      BY <2>4, Zenon DEF Woken
    <3>2. Woken(r)' = Woken(r)
      BY <2>2, <3>1, Zenon
    <3>3. value'[r] = value[r]
      BY <1>0, <1>1, <2>1, <2>4, SMTT(30) DEF TypeOK
    <3> QED BY <1>0, <2>1, <3>2, <3>3, WakeupsKept, Zenon
  <2> QED BY <2>3, <2>4, SMTT(30)
<1>7. CASE value[s] = 0
  <2>1. /\ value' = value /\ waitOn' = waitOn
        /\ status' = [CheckToBeDestroyed(status, "NONE") EXCEPT ![c] = "BLOCKED"]
        /\ queue' = [queue EXCEPT ![s] = Append(@, c)]
    BY <1>0, <1>7, Zenon DEF Retry
  <2>2. CASE r = s
    <3>1. IsFiniteSet(Woken(r)') /\ Cardinality(Woken(r)') \in Nat
      <4>1. Woken(r)' \subseteq Thread
        BY SMTT(30) DEF Woken
      <4> QED BY <4>1, ThreadsAssumption, Zenon DEF SetFacts, SubsetFact, CardinalityFact
    <3>2. value'[r] = 0
      BY <1>7, <2>1, <2>2, Zenon
    <3>3. 0 <= Cardinality(Woken(r)')
      BY <3>1
    <3> QED BY <3>2, <3>3, Zenon
  <2>3. CASE r # s
    <3>1. Woken(r)' = Woken(r)
      BY <1>0, <1>1, <1>2, <1>3, <1>4, <2>1, <2>3, ThreadsAssumption, SMTT(30)
      DEF Woken, TypeOK
    <3>2. queue'[r] = queue[r]
      BY <1>0, <1>1, <2>1, <2>3, SMTT(30) DEF TypeOK
    <3> QED BY <1>0, <2>1, <3>1, <3>2, WakeupsKept, Zenon
  <2> QED BY <2>2, <2>3
<1> QED BY <1>6, <1>7, Zenon

(* The actions that touch no semaphore leave the woken threads as they     *)
(* are: those they move are not in a P(), or are awake before and after.   *)
LEMMA WakeupsOther ==
    ASSUME IInv, NoLostWakeup,
           \/ \E u \in Thread : Fork(u)
           \/ Yield \/ Finish \/ SleepRun \/ Return
    PROVE  NoLostWakeup'
<1>0. TypeOK /\ OnePlace /\ Shape
  BY Zenon DEF IInv
<1>1. value' = value /\ queue' = queue /\ waitOn' = waitOn
  BY SMTT(30) DEF Fork, Yield, Finish, SleepRun, Return
<1> SUFFICES ASSUME NEW r \in Sem
             PROVE  Woken(r)' = Woken(r)
  <2>1. \A r \in Sem : Woken(r)' = Woken(r) =>
            (queue'[r] # << >> => value'[r] <= Cardinality(Woken(r)'))
    BY <1>0, <1>1, WakeupsKept, Zenon
  <2> QED BY <2>1, Zenon DEF NoLostWakeup
<1> SUFFICES ASSUME NEW t \in Thread, waitOn[t] = r
             PROVE  status'[t] = "BLOCKED" <=> status[t] = "BLOCKED"
  BY <1>1, Zenon DEF Woken
<1>2. at[t] = "P" /\ status[t] # "NONE" /\ t # toBeDestroyed
  BY <1>0, ThreadsAssumption, Carcass, Zenon DEF Shape
<1>3. ASSUME NEW u \in Thread, Fork(u)
      PROVE  status'[t] = "BLOCKED" <=> status[t] = "BLOCKED"
  BY <1>0, <1>2, <1>3, Zenon DEF Fork, TypeOK
<1>4. CASE Yield
  <2>1. /\ Head(readyList) \in Thread /\ status[Head(readyList)] = "READY"
    BY <1>0, <1>4, TailElems, Zenon DEF Yield, TypeOK, OnePlace
  <2> QED BY <1>0, <1>2, <1>4, <2>1, Zenon DEF Yield, Executing, TypeOK
<1>5. CASE Finish
  BY <1>0, <1>2, <1>5, Zenon DEF Finish, Executing, TypeOK
<1>6. CASE SleepRun
  <2>1. /\ Head(readyList) \in Thread /\ status[Head(readyList)] = "READY"
    BY <1>0, <1>6, TailElems, Zenon DEF SleepRun, TypeOK, OnePlace
  <2> QED BY <1>0, <1>2, <1>6, <2>1, Zenon DEF SleepRun, TypeOK
<1>7. CASE Return
  BY <1>0, <1>2, <1>7, Zenon DEF Return, CheckToBeDestroyed, TypeOK
<1> QED BY <1>3, <1>4, <1>5, <1>6, <1>7, Zenon

(* No step loses a wake-up.                                                *)
LEMMA WakeupsStep ==
    ASSUME SetFacts, IInv, NoLostWakeup, [Next]_vars
    PROVE  NoLostWakeup'
<1>1. ASSUME NEW s \in Sem, P(s) PROVE NoLostWakeup'
  BY <1>1, WakeupsP, Zenon
<1>2. ASSUME NEW s \in Sem, Signal(s) PROVE NoLostWakeup'
  BY <1>2, WakeupsSignal, Zenon
<1>3. CASE UNCHANGED vars
  BY <1>3, Zenon DEF vars, NoLostWakeup, Woken
<1> QED BY <1>1, <1>2, <1>3, WakeupsRetry, WakeupsOther, ThreadsAssumption, Zenon
        DEF Next, V, DeviceInterrupt

(* Every step of the thread layer is a step of the counting semaphores or  *)
(* leaves them alone.                                                      *)
THEOREM Refinement == Spec => ImplementsSemaphores
<1>1. Init => Sems!Init
  BY Zenon DEF Init, Sems!Init
<1>2. IInv /\ [Next]_vars => [Sems!Next]_(Sems!semVars)
  <2> SUFFICES ASSUME IInv, [Next]_vars
               PROVE  Sems!Next \/ UNCHANGED <<value, waitOn>>
    BY Zenon DEF Sems!semVars
  <2>0. TypeOK /\ Shape
    BY Zenon DEF IInv
  <2>1. ASSUME NEW s \in Sem, P(s) PROVE Sems!Next
    <3>1. /\ currentThread \in Thread /\ waitOn[currentThread] = NULL
          /\ value[s] \in Nat /\ waitOn \in [Thread -> Sem \cup {NULL}]
      BY <2>0, <2>1, Zenon DEF P, Executing, Shape, TypeOK
    <3>2. CASE value[s] # 0
      <4>1. waitOn' = waitOn /\ waitOn = [waitOn EXCEPT ![currentThread] = NULL]
        BY <2>1, <3>1, <3>2, Zenon DEF P
      <4>2. Sems!Take(currentThread, s)
        BY <2>1, <3>1, <3>2, <4>1 DEF P, Sems!Take
      <4> QED BY <3>1, <4>2, Zenon DEF Sems!Next
    <3>3. CASE value[s] = 0
      BY <2>1, <3>1, <3>3, Zenon DEF P, Sems!Next, Sems!Wait
    <3> QED BY <3>2, <3>3, Zenon
  <2>2. ASSUME NEW s \in Sem, Signal(s) PROVE Sems!Next
    BY <2>2, Zenon DEF Signal, Sems!Next, Sems!Release
  <2>3. ASSUME Retry PROVE Sems!Next \/ UNCHANGED <<value, waitOn>>
    <3>1. /\ currentThread \in Thread /\ waitOn[currentThread] \in Sem
          /\ value[waitOn[currentThread]] \in Nat
      BY <2>0, <2>3, Zenon DEF Retry, Switched, Shape, TypeOK
    <3>2. CASE value[waitOn[currentThread]] # 0
      <4>1. Sems!Take(currentThread, waitOn[currentThread])
        <5>1. /\ value' = [value EXCEPT ![waitOn[currentThread]] = @ - 1]
              /\ waitOn' = [waitOn EXCEPT ![currentThread] = NULL]
          BY <2>3, <3>2, Zenon DEF Retry
        <5>2. value[waitOn[currentThread]] > 0
          BY <3>1, <3>2
        <5> QED BY <5>1, <5>2, Zenon DEF Sems!Take
      <4> QED BY <3>1, <4>1, Zenon DEF Sems!Next
    <3>3. CASE value[waitOn[currentThread]] = 0
      BY <2>3, <3>3, Zenon DEF Retry
    <3> QED BY <3>2, <3>3, Zenon
  <2>4. CASE UNCHANGED vars
    BY <2>4, Zenon DEF vars
  <2> QED BY <2>1, <2>2, <2>3, <2>4, ThreadsAssumption, Zenon
          DEF Next, V, DeviceInterrupt, Fork, Yield, Finish, SleepRun, Return
<1> QED BY <1>1, <1>2, Invariance, PTL DEF Spec, ImplementsSemaphores, Sems!Spec
-----------------------------------------------------------------------------
(* The facts assumed so far, from the libraries.                           *)
INSTANCE FiniteSetTheorems
INSTANCE WellFoundedInduction

(* All of them hold.                                                       *)
LEMMA SetFactsHold == SetFacts
<1>1. CardinalityFact
  BY FS_CardinalityType, Zenon DEF CardinalityFact
<1>2. SmallFact
  BY FS_EmptySet, FS_Singleton, Zenon DEF SmallFact
<1>3. IntervalFact
  <2> SUFFICES ASSUME NEW n \in Nat PROVE IsFiniteSet(1 .. n) /\ Cardinality(1 .. n) = n
    BY Zenon DEF IntervalFact
  <2>1. 1 \in Int /\ n \in Int /\ (IF 1 > n THEN 0 ELSE n - 1 + 1) = n
    OBVIOUS
  <2> QED BY <2>1, FS_Interval, Zenon
<1>4. SubsetFact
  <2> SUFFICES ASSUME NEW S, NEW T \in SUBSET S, IsFiniteSet(S)
               PROVE  /\ IsFiniteSet(T) /\ Cardinality(T) <= Cardinality(S)
                      /\ Cardinality(T) = Cardinality(S) => T = S
    BY Zenon DEF SubsetFact
  <2>1. Cardinality(S) = Cardinality(T) => S = T
    BY FS_Subset, Zenon
  <2> QED BY <2>1, FS_Subset, Zenon
<1>5. AddFact
  BY FS_AddElement, Zenon DEF AddFact
<1>6. RemoveFact
  BY FS_RemoveElement, Zenon DEF RemoveFact
<1>7. PigeonFact
  BY FS_PigeonHole, Zenon DEF PigeonFact
<1>8. LeastFact
  <2> SUFFICES ASSUME NEW T, T \subseteq Nat, T # {}
               PROVE  \E m \in T : \A k \in T : m <= k
    BY Zenon DEF LeastFact
  <2> DEFINE R == OpToRel(<, Nat)
  <2>1. IsWellFoundedOn(R, Nat)
    BY NatLessThanWellFounded, Zenon
  <2> HIDE DEF R
  <2>2. PICK x \in T : \A y \in T : ~(<<y, x>> \in R)
    BY <2>1, WFMin, Zenon
  <2>3. \A y \in Nat : y < x => <<y, x>> \in R
    <3>1. R = {ss \in Nat \X Nat : ss[1] < ss[2]}
      BY Zenon DEF R, OpToRel
    <3> QED BY <3>1, Zenon
  <2>4. \A k \in T : x <= k
    <3>1. \A k \in T : k \in Nat /\ x \in Nat /\ ~(k < x)
      BY <2>2, <2>3, Zenon
    <3> QED BY <3>1
  <2> QED BY <2>4, Zenon
<1> QED BY <1>1, <1>2, <1>3, <1>4, <1>5, <1>6, <1>7, <1>8, Zenon DEF SetFacts

(* V() never leaves a unit to sleeping threads only, whatever threads get  *)
(* in between the wake-up and the woken thread's retry.                    *)
THEOREM WakeupsAreNotLost == Spec => []NoLostWakeup
<1>1. Init => NoLostWakeup
  BY Zenon DEF Init, NoLostWakeup
<1>2. IInv /\ NoLostWakeup /\ [Next]_vars => NoLostWakeup'
  BY SetFactsHold, WakeupsStep, Zenon
<1> QED BY <1>1, <1>2, Invariance, PTL DEF Spec

(* The linked lists are sequences, for any finite set of items and any     *)
(* keys.                                                                   *)
THEOREM ListsHoldSequences == ListSpec => ListsAreSequences
<1>1. ListInit => ListInv /\ L!Init
  BY SetFactsHold, ListInitInv, Zenon
<1>2. ListInv /\ [ListNext]_listVars => ListInv' /\ [L!Next]_(L!listVars) /\ Matches
  BY SetFactsHold, ListStep, Zenon
<1>3. ListInv => SanityCheck
  BY ListInvSane
<1> QED BY <1>1, <1>2, <1>3, PTL DEF ListSpec, ListsAreSequences, L!Spec, Matches
=============================================================================
