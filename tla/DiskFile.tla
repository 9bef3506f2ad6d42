------------------------------ MODULE DiskFile ------------------------------
(***************************************************************************)
(* Class OpenFile of the file system on the simulated disk: ReadAt and     *)
(* WriteAt move bytes at any position by reading and writing whole         *)
(* sectors.  WriteAt first reads the sectors that it changes only in part; *)
(* it writes sector by sector, and Nachos may stop between two of them.    *)
(* One caller at a time, as the code assumes.  The file header is the      *)
(* sequence of its sectors; Read, Write and Seek add a seek position.      *)
(*                                                                         *)
(* Seek takes any position, and ReadAt and WriteAt check only that it is   *)
(* before the end.  What they find or overwrite before the beginning is    *)
(* not of this file: bytes before the buffer, or a sector that a field     *)
(* before dataSectors happens to name.                                     *)
(***************************************************************************)
EXTENDS Integers, Sequences

CONSTANTS SectorSize, Length, Byte,
          Sizes,      \* the byte counts that callers ask for
          Positions   \* the positions that they seek

ASSUME DiskFileAssumption ==
    /\ SectorSize \in Nat \ {0} /\ Length \in Nat
    /\ Sizes \subseteq Int /\ Positions \subseteq Int

VARIABLES sectors,        \* sectors[i]: the bytes of the i-th data sector
          seekPosition,
          into,           \* the bytes that a Read has just returned
          write           \* a WriteAt under way, NoWrite, or Corrupt

fileVars == <<sectors, seekPosition, into, write>>

(* divRoundUp and divRoundDown by SectorSize; the division of C goes       *)
(* towards zero.                                                           *)
Up(n) == (n + SectorSize - 1) \div SectorSize
Down(n) == IF n >= 0 THEN n \div SectorSize ELSE -((-n) \div SectorSize)

(* position, numBytes, the bytes, buf and the next sector of WriteAt.      *)
NoWrite == [pos |-> 0, num |-> 0, from |-> << >>, buf |-> << >>, i |-> 0]

(* After a write before the beginning of the file: see WriteBefore.        *)
Corrupt == [NoWrite EXCEPT !.pos = -1]

(* A file; OpenFile::OpenFile.                                             *)
OpenFileInit ==
    /\ sectors \in [0 .. Up(Length) - 1 -> [0 .. SectorSize - 1 -> Byte]]
    /\ seekPosition = 0 /\ into = << >> /\ write = NoWrite

(* Definitions named Wrong... are plausible mistakes in the definition that *)
(* follows them; they are used only to show that the properties below      *)
(* notice them.                                                            *)

(* "check request": how many bytes are moved.                              *)
Within(pos, n) ==
    IF n <= 0 \/ pos >= Length THEN 0 ELSE IF pos + n > Length THEN Length - pos ELSE n

(* firstSector and lastSector.                                             *)
First(pos) == Down(pos)
Last(pos, n) == Down(pos + n - 1)

(* OpenFile::ReadAt: the bytes that it may return.  It reads whole sectors *)
(* into a buffer and copies a part of that; before the buffer, and on a    *)
(* sector before the first, it finds any bytes.                            *)
ReadAt(pos, n) ==
    LET num == Within(pos, n)
        buffer == 0 .. (1 + Last(pos, num) - First(pos)) * SectorSize - 1
        sector(k) == First(pos) + Down(k)
        found(k) == IF k \in buffer /\ sector(k) >= 0
                    THEN {sectors[sector(k)][k % SectorSize]} ELSE Byte
    IN  {bytes \in [1 .. num -> Byte] :
            \A k \in 1 .. num : bytes[k] \in found(pos - First(pos) * SectorSize + k - 1)}

(* OpenFile::Read.                                                         *)
ReadBytes(n) ==
    /\ write = NoWrite
    /\ into' \in ReadAt(seekPosition, n)
    /\ seekPosition' = seekPosition + Len(into')
    /\ UNCHANGED <<sectors, write>>

(* firstAligned and lastAligned.                                           *)
FirstAligned(pos) == pos = First(pos) * SectorSize
LastAligned(pos, n) == pos + n = (Last(pos, n) + 1) * SectorSize

(* WriteAt that reads the last sector only when it is not the first.       *)
WrongReadsLast(pos, n) == ~LastAligned(pos, n) /\ First(pos) # Last(pos, n)

(* The last sector is read unless it is the first and has been read.       *)
ReadsLast(pos, n) ==
    ~LastAligned(pos, n) /\ (First(pos) # Last(pos, n) \/ FirstAligned(pos))

(* The bytes of the file that the ReadAts of WriteAt put into its buffer.  *)
Filled(pos, n) ==
    {k \in 0 .. Length - 1 :
        \/ Down(k) = First(pos) /\ ~FirstAligned(pos)
        \/ Down(k) = Last(pos, n) /\ ReadsLast(pos, n)}

(* OpenFile::Write and the part of WriteAt before its loop.  The buffer is *)
(* indexed by the places of its bytes on the sectors; where nothing was    *)
(* read or copied it holds what new char[] happened to find.               *)
StartWrite(bytes) ==
    LET pos == seekPosition
        n == Within(pos, Len(bytes))
        copied == pos .. pos + n - 1
        buffer == First(pos) * SectorSize .. (Last(pos, n) + 1) * SectorSize - 1
    IN  /\ write = NoWrite /\ n > 0 /\ pos >= 0
        /\ \E junk \in [buffer \ (copied \cup Filled(pos, n)) -> Byte] :
              write' = [pos |-> pos, num |-> n, from |-> bytes, i |-> First(pos),
                        buf |-> [k \in buffer |->
                                    IF k \in copied THEN bytes[k - pos + 1]
                                    ELSE IF k \in DOMAIN junk THEN junk[k]
                                    ELSE sectors[Down(k)][k % SectorSize]]]
        /\ into' = << >>
        /\ UNCHANGED <<sectors, seekPosition>>

(* A Write before the beginning of the file overwrites memory or a sector  *)
(* that is not of the file; what happens next is not modelled.             *)
WriteBefore(bytes) ==
    /\ write = NoWrite /\ Within(seekPosition, Len(bytes)) > 0 /\ seekPosition < 0
    /\ write' = Corrupt
    /\ UNCHANGED <<sectors, seekPosition, into>>

(* A Write of no bytes, or at the end of the file.                         *)
WriteNothing(bytes) ==
    /\ write = NoWrite /\ Within(seekPosition, Len(bytes)) = 0
    /\ into' = << >>
    /\ UNCHANGED <<sectors, seekPosition, write>>

(* An iteration of the loop: WriteSector.                                  *)
WriteSector ==
    /\ write \notin {NoWrite, Corrupt} /\ write.i <= Last(write.pos, write.num)
    /\ sectors' = [sectors EXCEPT ![write.i] =
                      [b \in 0 .. SectorSize - 1 |-> write.buf[write.i * SectorSize + b]]]
    /\ write' = [write EXCEPT !.i = @ + 1]
    /\ UNCHANGED <<seekPosition, into>>

(* WriteAt and Write return.                                               *)
EndWrite ==
    /\ write \notin {NoWrite, Corrupt} /\ write.i > Last(write.pos, write.num)
    /\ seekPosition' = seekPosition + write.num
    /\ write' = NoWrite
    /\ UNCHANGED <<sectors, into>>

(* OpenFile::Seek.                                                         *)
SeekFile(pos) ==
    /\ write = NoWrite
    /\ seekPosition' = pos /\ into' = << >>
    /\ UNCHANGED <<sectors, write>>

(* Nachos stops; the file is opened again after its restart.               *)
Stop ==
    /\ write # Corrupt
    /\ seekPosition' = 0 /\ into' = << >> /\ write' = NoWrite
    /\ UNCHANGED sectors

OpenFileNext ==
    \/ \E n \in Sizes :
          \/ ReadBytes(n)
          \/ \E bytes \in [1 .. n -> Byte] :
                StartWrite(bytes) \/ WriteBefore(bytes) \/ WriteNothing(bytes)
    \/ WriteSector \/ EndWrite \/ Stop
    \/ \E pos \in Positions : SeekFile(pos)

OpenFileSpec == OpenFileInit /\ [][OpenFileNext]_fileVars
-----------------------------------------------------------------------------
(* How much of a WriteAt w is in the file.                                 *)
Written(w) ==
    IF w.i = First(w.pos) THEN 0
    ELSE IF w.i > Last(w.pos, w.num) THEN w.num
    ELSE w.i * SectorSize - w.pos

(* The file and the write under way as ByteFile has them.                  *)
Content == [k \in 0 .. Length - 1 |-> sectors[Down(k)][k % SectorSize]]
Writing ==
    IF write \in {NoWrite, Corrupt} THEN [at |-> 0, put |-> << >>, done |-> 0]
    ELSE [at |-> write.pos, put |-> SubSeq(write.from, 1, write.num), done |-> Written(write)]

(* Whatever the alignment of a request to the sectors, and whatever the    *)
(* new buffer held, reads and writes are those of a file of bytes: also    *)
(* when Nachos stops between two sectors, a byte outside the write keeps   *)
(* its value and one inside has its old or its new one.  Seek moves to any *)
(* position; behind the end nothing is read or written, and a read before  *)
(* the beginning returns the right bytes from the beginning on.            *)
Bytes == INSTANCE ByteFile WITH content <- Content, pos <- seekPosition,
                                got <- into, writing <- Writing
FilesAreBytes == Bytes!Spec
=============================================================================
