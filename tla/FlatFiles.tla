----------------------------- MODULE FlatFiles ------------------------------
(***************************************************************************)
(* What the file system promises its callers: a flat set of named files of *)
(* fixed size.  Create and Remove take effect at once or not at all.  A    *)
(* stop may leave a file under another name than the one that it should    *)
(* have; what that name finds is not promised from then on.                *)
(***************************************************************************)
EXTENDS Naturals

CONSTANTS FileName,   \* names, as the directory stores them
          Size        \* sizes, in sectors

VARIABLES files,      \* files[n]: the size of file n, for the files there are
          torn        \* the names under which a file may have been left

Init == files = [n \in {} |-> 0] /\ torn = {}

With(n, k) == [f \in DOMAIN files \cup {n} |-> IF f = n THEN k ELSE files[f]]

Create(n, k) ==
    /\ n \notin DOMAIN files
    /\ files' = With(n, k)
    /\ UNCHANGED torn

Remove(n) ==
    /\ n \in DOMAIN files
    /\ files' = [f \in DOMAIN files \ {n} |-> files[f]]
    /\ UNCHANGED torn

(* A stop leaves a file of size k under name n, or hidden behind another   *)
(* of that name.  Once n is torn the step is also that of a Remove of one  *)
(* of the two files, which shows the other.                                *)
Tear(n, k) ==
    /\ torn' = torn \cup {n}
    /\ \/ files' = With(n, k)
       \/ n \in DOMAIN files /\ UNCHANGED files

Next ==
    \E n \in FileName :
        \/ Remove(n)
        \/ \E k \in Size : Create(n, k) \/ Tear(n, k)

Spec == Init /\ [][Next]_<<files, torn>>
=============================================================================
