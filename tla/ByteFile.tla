------------------------------ MODULE ByteFile ------------------------------
(***************************************************************************)
(* What class OpenFile promises of reading and writing at a position: a    *)
(* file is a sequence of bytes of fixed length; a read returns the bytes   *)
(* there, a write replaces exactly those, both only within the file.  A    *)
(* write goes from left to right, and Nachos may stop in the middle.       *)
(* The position may be set to any integer: a read then promises nothing of *)
(* the bytes before the beginning, and a write there is not promised to    *)
(* leave anything as it is.                                                *)
(***************************************************************************)
EXTENDS Integers, Sequences

CONSTANTS Length, Byte, Sizes   \* Sizes: the byte counts that are asked for

VARIABLES content,   \* content[i], for i in 0 .. Length - 1
          pos,       \* the seek position
          got,       \* the bytes that a read has just returned
          writing    \* the write under way: its place, its bytes and the
                     \* number of them that are in the file; or Idle

fileVars == <<content, pos, got, writing>>

Idle == [at |-> 0, put |-> << >>, done |-> 0]

Init ==
    /\ content \in [0 .. Length - 1 -> Byte]
    /\ pos = 0 /\ got = << >> /\ writing = Idle

(* How many of n bytes at the position are not behind the end.             *)
Within(n) ==
    IF n <= 0 \/ pos >= Length THEN 0 ELSE IF pos + n > Length THEN Length - pos ELSE n

Read(n) ==
    /\ writing = Idle
    /\ DOMAIN got' = 1 .. Within(n)
    /\ \A i \in 1 .. Within(n) : pos + i - 1 >= 0 => got'[i] = content[pos + i - 1]
    /\ pos' = pos + Within(n)
    /\ UNCHANGED <<content, writing>>

StartWrite(bytes) ==
    /\ writing = Idle /\ pos >= 0
    /\ writing' = [at |-> pos, put |-> SubSeq(bytes, 1, Within(Len(bytes))), done |-> 0]
    /\ got' = << >> /\ UNCHANGED <<content, pos>>

(* More bytes are in the file.                                             *)
GoOn(done) ==
    /\ writing.done < done
    /\ writing' = [writing EXCEPT !.done = done]
    /\ content' = [i \in 0 .. Length - 1 |->
                      IF i \in writing.at .. writing.at + done - 1
                      THEN writing.put[i - writing.at + 1] ELSE content[i]]
    /\ UNCHANGED <<pos, got>>

EndWrite ==
    /\ writing.done = Len(writing.put)
    /\ pos' = pos + Len(writing.put)
    /\ writing' = Idle
    /\ UNCHANGED <<content, got>>

(* The position may also stay.                                             *)
Seek ==
    /\ writing = Idle
    /\ pos' \in Int /\ got' = << >>
    /\ UNCHANGED <<content, writing>>

(* Nachos stops, and is started again.                                     *)
Stop == pos' = 0 /\ writing' = Idle /\ got' = << >> /\ UNCHANGED content

Next ==
    \/ \E n \in Sizes : Read(n) \/ \E bytes \in [1 .. n -> Byte] : StartWrite(bytes)
    \/ \E done \in 1 .. Len(writing.put) : GoOn(done)
    \/ EndWrite \/ Seek \/ Stop

Spec == Init /\ [][Next]_fileVars
=============================================================================
