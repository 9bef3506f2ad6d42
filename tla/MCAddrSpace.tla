---------------------------- MODULE MCAddrSpace -----------------------------
(* Instances of AddrSpace for TLC: small programs on pages of two cells.   *)
(* Two of one page and one of two are enough for holes in the map of pages *)
(* and for a program whose pages are not neighbours.                       *)
EXTENDS AddrSpace, TLC

CONSTANTS p1, p2, p3, p4

Header(size, file, data, dataSize) ==
    [size |-> size, file |-> file, data |-> data, dataIn |-> data,
     dataSize |-> dataSize]

(* Two programs of one page, one of two, and one that is larger than the   *)
(* memory.  p1 and p3 have initialised data behind their code; the last    *)
(* cells of p2 and p3 are bss or stack.                                    *)
NoffFiles == p1 :> Header(2, 2, 1, 1) @@ p2 :> Header(2, 1, 0, 0)
             @@ p3 :> Header(4, 3, 1, 2) @@ p4 :> Header(8, 3, 0, 0)
=============================================================================
