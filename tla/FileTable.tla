----------------------------- MODULE FileTable ------------------------------
(***************************************************************************)
(* The file and socket system calls over the table of open files of class  *)
(* FileSystem, in the stub version that the build uses: the files are UNIX *)
(* files (external), known here by their length.  One table serves all     *)
(* processes.  No call of this module gives up the processor, so each is   *)
(* one step; Read of file 0 and Write of file 1 are in SynchConsole.       *)
(*                                                                         *)
(* The position of an open file is the UNIX file offset: every system call *)
(* starts with GetCurrentPos, Length or Seek, which copy it over           *)
(* OpenFile::currentOffset.                                                *)
(***************************************************************************)
EXTENDS Integers

CONSTANTS Proc,
          Name,       \* the valid file names that programs use
          MaxFile,    \* the entries of the table (20)
          MaxLen,     \* bound on the length of a file
          SeekPos,    \* the positions that programs seek to
          NULL

ASSUME FileTableAssumption ==
    /\ MaxFile \in Nat /\ MaxFile >= 2
    /\ MaxLen \in Nat /\ SeekPos \subseteq Int

VARIABLES disk,      \* disk[n]: the length of file n, or Absent
          openfile,  \* FileSystem::openfile and filename, entry by entry
          aborted,   \* an ASSERT of the kernel has failed
          result,    \* what the last system call returned
          mine,      \* mine[p][id]: what a careful p knows of id: its name,
                     \* type and position after p's calls; NULL: not p's
          conduct    \* how the programs of this run behave

vars == <<disk, openfile, aborted, result, mine, conduct>>

(* Programs use only ids that Open or Socket gave them, and seek only to   *)
(* positions that the file has.                                            *)
Careful == conduct = "careful"

Absent == -1

NoName == ""
ASSUME NameAssumption == NoName \notin Name

File == Name \cup {"stdin", "stdout"}
Id == 0 .. MaxFile - 1
Count == 0 .. MaxLen

Max(a, b) == IF a > b THEN a ELSE b
Min(a, b) == IF a < b THEN a ELSE b

(* class OpenFile and its entry of filename[]; sockets are of type 2.      *)
OpenFile == [name : File \cup {"socket"}, type : 0 .. 2, pos : 0 .. MaxLen,
             isConnect : BOOLEAN]
ASSUME NullAssumption == NULL \notin OpenFile

NewOpenFile(n, type) == [name |-> n, type |-> type, pos |-> 0, isConnect |-> FALSE]

(* FileSystem::FileSystem.                                                 *)
Init ==
    /\ disk \in {d \in [File -> {Absent} \cup Count] : d["stdin"] = 0 /\ d["stdout"] = 0}
    /\ openfile = [id \in Id |->
           CASE id = 0 -> NewOpenFile("stdin", 1)
             [] id = 1 -> NewOpenFile("stdout", 0)
             [] OTHER -> NULL]
    /\ aborted = FALSE
    /\ result = 0
    /\ mine = [p \in Proc |-> [id \in Id |-> NULL]]
    /\ conduct \in {"careful", "any"}

(* Definitions named Wrong... are plausible mistakes in the definition that *)
(* follows them; they are used only to show that the properties below      *)
(* notice them.                                                            *)

(* isFull that overlooks that entries are in use.                          *)
WrongIsFree(id) == id >= 2

(* FileSystem::isFull gives the first entry that is NULL.                  *)
IsFree(id) == openfile[id] = NULL /\ \A i \in Id : openfile[i] = NULL => id <= i

(* The test of Remove that looks at the console's entries only.            *)
WrongIsOpen(n) == n \in {"stdin", "stdout"}

(* The loop of Remove over filename[].                                     *)
IsOpen(n) == \E id \in Id : openfile[id] # NULL /\ openfile[id].name = n

(* An id that process p may pass.                                          *)
Passes(p, id) == Careful => id \in Id /\ mine[p][id] # NULL

(* The id names an open file: the range test and the NULL test.            *)
Known(id, first) == id \in Id /\ id >= first /\ openfile[id] # NULL

Returns(r) == result' = r

Fails == Returns(-1) /\ UNCHANGED <<disk, openfile, aborted, mine>>

(* The id names an open file, and that is a socket or is none.             *)
IsSocket(id, first) == Known(id, first) /\ openfile[id].type = 2
IsFile(id, first) == Known(id, first) /\ openfile[id].type # 2

(* A position that a program may pass with id.                             *)
SeeksTo(id, pos) ==
    Careful /\ IsFile(id, 0) => pos \in -1 .. disk[openfile[id].name]

(* The entry id, and what its owner knows of it, become e.                 *)
Becomes(p, id, e) ==
    /\ openfile' = [openfile EXCEPT ![id] = e]
    /\ mine' = [mine EXCEPT ![p][id] = IF @ = NULL THEN @ ELSE e]

(* A successful Open or Socket.                                            *)
Opens(p, id, e) ==
    /\ openfile' = [openfile EXCEPT ![id] = e]
    /\ mine' = [mine EXCEPT ![p][id] = IF Careful THEN e ELSE @]
    /\ Returns(id)
    /\ UNCHANGED <<disk, aborted>>
-----------------------------------------------------------------------------
(* SC_Create: FileSystem::Create truncates a file that exists.             *)
Create(p, n) ==
    \/ n = NoName /\ Fails
    \/ /\ n # NoName
       /\ disk' = [disk EXCEPT ![n] = 0]
       /\ Returns(0)
       /\ UNCHANGED <<openfile, aborted, mine>>

(* SC_Open.                                                                *)
Open(p, n, type) ==
    \/ /\ \/ \A id \in Id : ~IsFree(id)
          \/ n = NoName
          \/ type \notin {0, 1}
          \/ n # NoName /\ disk[n] = Absent
       /\ Fails
    \/ /\ n # NoName /\ type \in {0, 1} /\ disk[n] # Absent
       /\ \E id \in Id : IsFree(id) /\ Opens(p, id, NewOpenFile(n, type))

(* SC_Socket; socket() may fail.                                           *)
Socket(p) ==
    \/ Fails
    \/ \E id \in Id : IsFree(id) /\ Opens(p, id, NewOpenFile("socket", 2))

(* SC_Close.                                                               *)
Close(p, id) ==
    \/ ~Known(id, 2) /\ Fails
    \/ /\ Known(id, 2)
       /\ Becomes(p, id, NULL)
       /\ Returns(0)
       /\ UNCHANGED <<disk, aborted>>

(* What read() and write() on a connected socket return: external.         *)
SocketIO(k) ==
    /\ \E r \in {-1} \cup 1 .. k : Returns(r)
    /\ UNCHANGED <<disk, openfile, aborted, mine>>

IsConnected(id, first) == IsSocket(id, first) /\ openfile[id].isConnect

(* The bytes that read() finds.                                            *)
Ahead(id) == disk[openfile[id].name] - openfile[id].pos

(* A Read that does not move the position.                                 *)
WrongReadFile(p, id, k) ==
    LET f == openfile[id]
        n == Min(k, Ahead(id))
    IN  /\ n > 0
        /\ Returns(n)
        /\ openfile' = openfile
        /\ mine' = [mine EXCEPT ![p][id] = IF @ = NULL THEN @ ELSE [f EXCEPT !.pos = @ + n]]
        /\ UNCHANGED <<disk, aborted>>

(* SC_Read of a file with something after the position.                    *)
ReadFile(p, id, k) ==
    LET n == Min(k, Ahead(id))
    IN  /\ n > 0
        /\ Becomes(p, id, [openfile[id] EXCEPT !.pos = @ + n])
        /\ Returns(n)
        /\ UNCHANGED <<disk, aborted>>

(* SC_Read.                                                                *)
Read(p, id, k) ==
    /\ id # 0
    /\ \/ ~IsFile(id, 0) /\ ~IsConnected(id, 0) /\ Fails
       \/ IsFile(id, 0) /\ Min(k, Ahead(id)) <= 0 /\ Fails
       \/ IsFile(id, 0) /\ ReadFile(p, id, k)
       \/ IsConnected(id, 0) /\ SocketIO(k)

(* SC_Write of a file that was opened for writing; the file grows.         *)
WriteFile(p, id, k) ==
    LET f == openfile[id]
    IN  /\ f.pos + k <= MaxLen
        /\ Becomes(p, id, [f EXCEPT !.pos = @ + k])
        /\ disk' = [disk EXCEPT ![f.name] = Max(@, f.pos + k)]
        /\ Returns(k)
        /\ UNCHANGED aborted

(* SC_Write.                                                               *)
Write(p, id, k) ==
    /\ id # 1
    /\ \/ ~IsFile(id, 0) /\ ~IsConnected(id, 0) /\ Fails
       \/ IsFile(id, 0) /\ (openfile[id].type = 1 \/ k = 0) /\ Fails
       \/ IsFile(id, 0) /\ openfile[id].type = 0 /\ k > 0 /\ WriteFile(p, id, k)
       \/ IsConnected(id, 0) /\ SocketIO(k)

(* SC_Seek.  Length() moves the UNIX offset to the end of the file, also   *)
(* when the position is then refused; Lseek asserts that lseek succeeds.   *)
(* The handler does not test for negative ids: what openfile[-1] holds is  *)
(* outside the model, and Next does not call Seek with one.                *)
Seek(p, pos, id) ==
    \/ ~IsFile(id, 2) /\ Fails
    \/ /\ IsFile(id, 2)
       /\ LET f == openfile[id]
              len == disk[f.name]
              new == IF pos = -1 THEN len ELSE pos
          IN  \/ /\ pos > len
                 /\ openfile' = [openfile EXCEPT ![id].pos = len]
                 /\ Returns(-1)
                 /\ UNCHANGED <<disk, aborted, mine>>
              \/ /\ pos < -1
                 /\ aborted' = TRUE
                 /\ UNCHANGED <<disk, openfile, result, mine>>
              \/ /\ pos \in -1 .. len
                 /\ Becomes(p, id, [f EXCEPT !.pos = new])
                 /\ Returns(new)
                 /\ UNCHANGED <<disk, aborted>>

(* SC_Remove.                                                              *)
Remove(p, n) ==
    \/ /\ n = NoName \/ IsOpen(n) \/ (n # NoName /\ disk[n] = Absent)
       /\ Fails
    \/ /\ n # NoName /\ ~IsOpen(n) /\ disk[n] # Absent
       /\ disk' = [disk EXCEPT ![n] = Absent]
       /\ Returns(0)
       /\ UNCHANGED <<openfile, aborted, mine>>

(* SC_Connect; connect() may fail, and then the socket is not connected.   *)
Connect(p, id) ==
    \/ ~IsSocket(id, 2) /\ Fails
    \/ /\ IsSocket(id, 2)
       /\ \E ok \in BOOLEAN :
             /\ Becomes(p, id, [openfile[id] EXCEPT !.isConnect = ok])
             /\ Returns(IF ok THEN 0 ELSE -1)
       /\ UNCHANGED <<disk, aborted>>

(* SC_Send and SC_Receive.                                                 *)
SendReceive(p, id, k, first) ==
    \/ ~IsConnected(id, first) /\ Fails
    \/ IsConnected(id, first) /\ SocketIO(k)

Send(p, id, k) == SendReceive(p, id, k, 0)
Receive(p, id, k) == SendReceive(p, id, k, 2)

(* SC_Exit leaves the table alone; the next program in this place has      *)
(* opened nothing.                                                         *)
Exit(p) ==
    /\ mine' = [mine EXCEPT ![p] = [id \in Id |-> NULL]]
    /\ UNCHANGED <<disk, openfile, aborted, result>>

Next ==
    /\ ~aborted
    /\ \E p \in Proc :
          \/ \E n \in Name \cup {NoName} :
                \/ Create(p, n) \/ Remove(p, n)
                \/ \E type \in 0 .. 2 : Open(p, n, type)
          \/ \E id \in -1 .. MaxFile :
                /\ Passes(p, id)
                /\ \/ Close(p, id) \/ Connect(p, id)
                   \/ \E k \in Count : Read(p, id, k) \/ Write(p, id, k)
                                       \/ Send(p, id, k) \/ Receive(p, id, k)
                   \/ \E pos \in SeekPos :
                         id >= 0 /\ SeeksTo(id, pos) /\ Seek(p, pos, id)
          \/ Socket(p)
          \/ Exit(p)
    /\ UNCHANGED conduct

Spec == Init /\ [][Next]_vars
-----------------------------------------------------------------------------
(* Types.                                                                  *)
TypeOK ==
    /\ disk \in [File -> -1 .. MaxLen]
    /\ openfile \in [Id -> OpenFile \cup {NULL}]
    /\ aborted \in BOOLEAN
    /\ result \in -1 .. MaxFile + MaxLen
    /\ mine \in [Proc -> [Id -> OpenFile \cup {NULL}]]
    /\ conduct \in {"careful", "any"}

(* Whatever programs do, the console entries stay open, and a file that is *)
(* open, by whomever, is on the disk: Remove refuses it.                   *)
OpenFilesExist ==
    /\ TypeOK
    /\ openfile[0] # NULL /\ openfile[1] # NULL
    /\ \A id \in Id :
          openfile[id] # NULL /\ openfile[id].type # 2 => disk[openfile[id].name] # Absent

(* Among careful programs an id belongs to the process that got it until   *)
(* that process closes it: it names the same file, opened for the same     *)
(* use, and no other process is given it.  Seek: "Set the seek position of *)
(* the open file id to the byte position"; Read and Write go on from it.   *)
(* The position of an open file is the one that the owner's successful     *)
(* calls left, whatever others do with other ids of the same file.  (A     *)
(* Seek that is refused moves it to the end.)                              *)
IdsAreStable ==
    \A p \in Proc, id \in Id : Careful /\ mine[p][id] # NULL =>
        /\ openfile[id] # NULL
        /\ openfile[id].name = mine[p][id].name
        /\ openfile[id].type = mine[p][id].type
        /\ openfile[id].pos = mine[p][id].pos
        /\ \A q \in Proc \ {p} : mine[q][id] = NULL
=============================================================================
