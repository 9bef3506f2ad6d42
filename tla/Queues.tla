------------------------------- MODULE Queues -------------------------------
(* The queues of the kernel are Lists, of which module LinkedList shows    *)
(* that they are sequences; here is what one asks of such a sequence.      *)
EXTENDS Naturals, Sequences

(* The set of the elements of a list.                                      *)
Elems(q) == {q[i] : i \in 1..Len(q)}

(* No element occurs twice in the list.                                    *)
NoDuplicates(q) == \A i, j \in 1..Len(q) : q[i] = q[j] => i = j
=============================================================================
