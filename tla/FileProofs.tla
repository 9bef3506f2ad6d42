---------------------------- MODULE FileProofs ------------------------------
(***************************************************************************)
(* Proofs about the table of open files, for any number of processes, any  *)
(* size of the table and any bound on the length of files: OpenFilesExist  *)
(* and IdsAreStable.                                                       *)
(***************************************************************************)
EXTENDS FileTable, TLAPS

Result == -1 .. MaxFile + MaxLen

(* An entry that is not a socket names a file of the disk.                 *)
Present ==
    \A id \in Id : openfile[id] # NULL /\ openfile[id].type # 2 =>
        openfile[id].name \in File /\ disk[openfile[id].name] # Absent

Console == openfile[0] # NULL /\ openfile[1] # NULL

(* The inductive invariant.                                                *)
IInv == TypeOK /\ Present /\ Console /\ IdsAreStable

(* The next disk has every file that is open.                              *)
DiskKept ==
    /\ disk' \in [File -> -1 .. MaxLen]
    /\ \A n \in File : IsOpen(n) /\ disk[n] # Absent => disk'[n] # Absent

(* The entries 0 and 1 are there.                                          *)
LEMMA ConsoleIds == 0 \in Id /\ 1 \in Id /\ Id \subseteq Nat
BY FileTableAssumption DEF Id

(* New entries.                                                            *)
LEMMA NewOpenFileType ==
    ASSUME NEW n \in File \cup {"socket"}, NEW type \in 0 .. 2
    PROVE  /\ NewOpenFile(n, type) \in OpenFile /\ NewOpenFile(n, type) # NULL
           /\ NewOpenFile(n, type).name = n /\ NewOpenFile(n, type).type = type
<1>1. NewOpenFile(n, type) \in OpenFile
  BY FileTableAssumption DEF NewOpenFile, OpenFile
<1>2. NewOpenFile(n, type).name = n /\ NewOpenFile(n, type).type = type
  BY Zenon DEF NewOpenFile
<1> QED BY <1>1, <1>2, NullAssumption, Zenon

(* FileSystem::FileSystem opens the console's two entries.                 *)
LEMMA InitIInv == Init => IInv
<1> SUFFICES ASSUME Init PROVE IInv
  BY Zenon
<1>1. /\ NewOpenFile("stdin", 1) \in OpenFile /\ NewOpenFile("stdin", 1) # NULL
      /\ NewOpenFile("stdin", 1).name = "stdin" /\ NewOpenFile("stdin", 1).type = 1
      /\ NewOpenFile("stdout", 0) \in OpenFile /\ NewOpenFile("stdout", 0) # NULL
      /\ NewOpenFile("stdout", 0).name = "stdout" /\ NewOpenFile("stdout", 0).type = 0
  BY NewOpenFileType DEF File
<1>2. /\ openfile[0] = NewOpenFile("stdin", 1) /\ openfile[1] = NewOpenFile("stdout", 0)
      /\ \A id \in Id : id \notin {0, 1} => openfile[id] = NULL
      /\ DOMAIN openfile = Id
  BY ConsoleIds DEF Init
<1>3. openfile \in [Id -> OpenFile \cup {NULL}]
  BY <1>1, ConsoleIds, Zenon DEF Init
<1>4. disk \in [File -> -1 .. MaxLen] /\ disk["stdin"] = 0 /\ disk["stdout"] = 0
  BY FileTableAssumption DEF Init, Count, Absent
<1>5. TypeOK
  <2>1. 0 \in -1 .. MaxFile + MaxLen
    BY FileTableAssumption
  <2>2. result \in -1 .. MaxFile + MaxLen /\ conduct \in {"careful", "any"}
    BY <2>1, Zenon DEF Init
  <2>3. mine \in [Proc -> [Id -> OpenFile \cup {NULL}]]
    BY Zenon DEF Init
  <2>4. aborted \in BOOLEAN
    BY Zenon DEF Init
  <2> QED BY <1>3, <1>4, <2>2, <2>3, <2>4, Zenon DEF TypeOK
<1>6. Present
  BY <1>1, <1>2, <1>4 DEF Present, File, Absent
<1>7. Console
  BY <1>1, <1>2, Zenon DEF Console
<1>8. IdsAreStable
  BY Zenon DEF Init, IdsAreStable
<1> QED BY <1>5, <1>6, <1>7, <1>8, Zenon DEF IInv

(* Calls that leave the table alone.                                       *)
LEMMA TableKept ==
    ASSUME IInv, UNCHANGED <<openfile, mine, conduct>>, DiskKept,
           result' \in Result, aborted' \in BOOLEAN
    PROVE  IInv'
<1>1. TypeOK'
  BY Zenon DEF IInv, TypeOK, DiskKept, Result
<1>2. Present'
  BY Zenon DEF IInv, Present, DiskKept, IsOpen
<1>3. Console' /\ IdsAreStable'
  BY DEF IInv, Console, IdsAreStable, Careful
<1> QED BY <1>1, <1>2, <1>3, Zenon DEF IInv

(* A disk that does not change.                                            *)
LEMMA SameDisk == ASSUME IInv, disk' = disk PROVE DiskKept
BY Zenon DEF IInv, TypeOK, DiskKept

(* A call that fails.                                                      *)
LEMMA FailsStep == ASSUME IInv, Fails, UNCHANGED conduct PROVE IInv'
<1>1. -1 \in Result
  BY FileTableAssumption DEF Result
<1> QED BY <1>1, SameDisk, TableKept, Zenon DEF Fails, Returns, IInv, TypeOK

(* A call on a connected socket.                                           *)
LEMMA SocketIOStep ==
    ASSUME IInv, NEW k \in Count, SocketIO(k), UNCHANGED conduct
    PROVE  IInv'
<1>1. {-1} \cup 1 .. k \subseteq Result
  BY FileTableAssumption DEF Result, Count
<1> QED BY <1>1, SameDisk, TableKept, Zenon DEF SocketIO, Returns, IInv, TypeOK

(* Entry id becomes e, in the table and for the process p that uses it.    *)
LEMMA EntryChanged ==
    ASSUME IInv, NEW p \in Proc, NEW id \in Id, openfile[id] # NULL,
           Passes(p, id), UNCHANGED conduct, NEW e \in OpenFile, Becomes(p, id, e),
           e.name = openfile[id].name, e.type = openfile[id].type,
           DiskKept, result' \in Result, aborted' \in BOOLEAN
    PROVE  IInv'
<1>0. TypeOK /\ Present /\ Console /\ IdsAreStable /\ e # NULL
  BY NullAssumption, Zenon DEF IInv
<1>1. /\ openfile' \in [Id -> OpenFile \cup {NULL}] /\ openfile'[id] = e
      /\ \A i \in Id : i # id => openfile'[i] = openfile[i]
  BY <1>0, Zenon DEF Becomes, TypeOK
<1>2. /\ mine' \in [Proc -> [Id -> OpenFile \cup {NULL}]]
      /\ mine'[p][id] = IF mine[p][id] = NULL THEN NULL ELSE e
      /\ \A q \in Proc, i \in Id : q # p \/ i # id => mine'[q][i] = mine[q][i]
  BY <1>0, Zenon DEF Becomes, TypeOK
<1>3. TypeOK'
  BY <1>0, <1>1, <1>2, Zenon DEF TypeOK, DiskKept, Result
<1>4. Present'
  <2>1. ASSUME NEW i \in Id, openfile'[i] # NULL, openfile'[i].type # 2
        PROVE  openfile'[i].name \in File /\ disk'[openfile'[i].name] # Absent
    <3>1. /\ openfile[i] # NULL /\ openfile[i].type # 2
          /\ openfile'[i].name = openfile[i].name
      BY <1>1, <2>1, Zenon
    <3> QED BY <1>0, <3>1, Zenon DEF Present, DiskKept, IsOpen
  <2> QED BY <2>1, Zenon DEF Present
<1>5. Console'
  BY <1>0, <1>1, ConsoleIds, Zenon DEF Console
<1>6. IdsAreStable'
  <2> SUFFICES ASSUME NEW q \in Proc, NEW i \in Id, Careful, mine'[q][i] # NULL
               PROVE  /\ openfile'[i] # NULL
                      /\ openfile'[i].name = mine'[q][i].name
                      /\ openfile'[i].type = mine'[q][i].type
                      /\ openfile'[i].pos = mine'[q][i].pos
                      /\ \A r \in Proc \ {q} : mine'[r][i] = NULL
    BY Zenon DEF IdsAreStable, Careful
  <2>1. mine[p][id] # NULL
    BY Zenon DEF Passes
  <2>2. \A r \in Proc \ {p} : mine[r][id] = NULL
    BY <1>0, <2>1, Zenon DEF IdsAreStable
  <2>3. CASE i = id
    <3>1. q = p /\ mine'[q][i] = e
      BY <1>2, <2>1, <2>2, <2>3
    <3> QED BY <1>0, <1>1, <1>2, <2>2, <2>3, <3>1
  <2>4. CASE i # id
    BY <1>0, <1>1, <1>2, <2>4 DEF IdsAreStable
  <2> QED BY <2>3, <2>4, Zenon
<1> QED BY <1>3, <1>4, <1>5, <1>6, Zenon DEF IInv

(* A new entry: nobody had this id, because it was free.                   *)
LEMMA EntryOpened ==
    ASSUME IInv, NEW p \in Proc, NEW id \in Id, IsFree(id), UNCHANGED conduct,
           NEW e \in OpenFile, Opens(p, id, e),
           e.type # 2 => e.name \in File /\ disk[e.name] # Absent
    PROVE  IInv'
<1>0. TypeOK /\ Present /\ Console /\ IdsAreStable /\ e # NULL /\ openfile[id] = NULL
  BY NullAssumption, Zenon DEF IInv, IsFree
<1>1. /\ openfile' \in [Id -> OpenFile \cup {NULL}] /\ openfile'[id] = e
      /\ \A i \in Id : i # id => openfile'[i] = openfile[i]
      /\ disk' = disk /\ aborted' = aborted
  BY <1>0, Zenon DEF Opens, TypeOK
<1>2. /\ mine' \in [Proc -> [Id -> OpenFile \cup {NULL}]]
      /\ Careful => mine'[p][id] = e
      /\ \A q \in Proc, i \in Id : q # p \/ i # id => mine'[q][i] = mine[q][i]
  BY <1>0 DEF Opens, TypeOK
<1>3. result' \in Result
  BY FileTableAssumption DEF Opens, Returns, Result, Id
<1>4. TypeOK'
  BY <1>0, <1>1, <1>2, <1>3, Zenon DEF TypeOK, Result
<1>5. Present'
  BY <1>0, <1>1 DEF Present
<1>6. Console'
  BY <1>0, <1>1, ConsoleIds, Zenon DEF Console
<1>7. IdsAreStable'
  <2> SUFFICES ASSUME NEW q \in Proc, NEW i \in Id, Careful, mine'[q][i] # NULL
               PROVE  /\ openfile'[i] # NULL
                      /\ openfile'[i].name = mine'[q][i].name
                      /\ openfile'[i].type = mine'[q][i].type
                      /\ openfile'[i].pos = mine'[q][i].pos
                      /\ \A r \in Proc \ {q} : mine'[r][i] = NULL
    BY Zenon DEF IdsAreStable, Careful
  <2>1. \A r \in Proc : mine[r][id] = NULL
    BY <1>0, Zenon DEF IdsAreStable
  <2>2. CASE i = id
    <3>1. q = p
      BY <1>2, <2>1, <2>2, Zenon
    <3> QED BY <1>0, <1>1, <1>2, <2>1, <2>2, <3>1
  <2>3. CASE i # id
    BY <1>0, <1>1, <1>2, <2>3 DEF IdsAreStable
  <2> QED BY <2>2, <2>3, Zenon
<1> QED BY <1>4, <1>5, <1>6, <1>7, Zenon DEF IInv

(* SC_Close takes the entry from the table and from its one owner.         *)
LEMMA CloseStep ==
    ASSUME IInv, NEW p \in Proc, NEW id, Passes(p, id), Close(p, id), UNCHANGED conduct
    PROVE  IInv'
<1>1. CASE ~Known(id, 2) /\ Fails
  BY <1>1, FailsStep, Zenon
<1>2. CASE Known(id, 2) /\ Becomes(p, id, NULL) /\ Returns(0) /\ UNCHANGED <<disk, aborted>>
  <2>0. /\ TypeOK /\ Present /\ Console /\ IdsAreStable
        /\ id \in Id /\ id >= 2 /\ disk' = disk /\ aborted' = aborted
    BY <1>2, Zenon DEF IInv, Known
  <2>1. /\ openfile' \in [Id -> OpenFile \cup {NULL}] /\ openfile'[id] = NULL
        /\ \A i \in Id : i # id => openfile'[i] = openfile[i]
    BY <1>2, <2>0, Zenon DEF Becomes, TypeOK
  <2>2. /\ mine' \in [Proc -> [Id -> OpenFile \cup {NULL}]] /\ mine'[p][id] = NULL
        /\ \A q \in Proc, i \in Id : q # p \/ i # id => mine'[q][i] = mine[q][i]
    BY <1>2, <2>0, Zenon DEF Becomes, TypeOK
  <2>3. result' \in Result
    BY <1>2, FileTableAssumption DEF Returns, Result
  <2>4. TypeOK'
    BY <2>0, <2>1, <2>2, <2>3, Zenon DEF TypeOK, Result
  <2>5. Present'
    BY <2>0, <2>1, Zenon DEF Present
  <2>6. Console'
    BY <2>0, <2>1, ConsoleIds DEF Console
  <2>7. IdsAreStable'
    <3> SUFFICES ASSUME NEW q \in Proc, NEW i \in Id, Careful, mine'[q][i] # NULL
                 PROVE  /\ openfile'[i] # NULL
                        /\ openfile'[i].name = mine'[q][i].name
                        /\ openfile'[i].type = mine'[q][i].type
                        /\ openfile'[i].pos = mine'[q][i].pos
                        /\ \A r \in Proc \ {q} : mine'[r][i] = NULL
      BY Zenon DEF IdsAreStable, Careful
    <3>1. mine[p][id] # NULL
      BY Zenon DEF Passes
    <3>2. \A r \in Proc : mine'[r][id] = NULL
      BY <2>0, <2>2, <3>1 DEF IdsAreStable
    <3>3. i # id
      BY <3>2, Zenon
    <3> QED BY <2>0, <2>1, <2>2, <3>3 DEF IdsAreStable
  <2> QED BY <2>4, <2>5, <2>6, <2>7, Zenon DEF IInv
<1> QED BY <1>1, <1>2, Zenon DEF Close

(* The calls on names: only Remove takes a file away, and not an open one. *)
LEMMA NameSteps ==
    ASSUME IInv, NEW p \in Proc, NEW n \in Name \cup {NoName}, UNCHANGED conduct,
           Create(p, n) \/ Remove(p, n) \/ \E type \in 0 .. 2 : Open(p, n, type)
    PROVE  IInv'
<1>0. TypeOK /\ (n # NoName => n \in File) /\ 0 \in Result
  BY FileTableAssumption DEF IInv, File, Result
<1>1. CASE Fails
  BY <1>1, FailsStep, Zenon
<1>2. CASE /\ n # NoName /\ disk' = [disk EXCEPT ![n] = 0]
           /\ Returns(0) /\ UNCHANGED <<openfile, aborted, mine>>
  <2>1. DiskKept
    BY <1>0, <1>2, FileTableAssumption DEF TypeOK, DiskKept, Absent
  <2> QED BY <1>0, <1>2, <2>1, TableKept, Zenon DEF Returns, TypeOK
<1>3. CASE /\ n # NoName /\ ~IsOpen(n) /\ disk' = [disk EXCEPT ![n] = Absent]
           /\ Returns(0) /\ UNCHANGED <<openfile, aborted, mine>>
  <2>1. -1 \in -1 .. MaxLen
    BY FileTableAssumption
  <2>2. disk' \in [File -> -1 .. MaxLen] /\ \A m \in File : m # n => disk'[m] = disk[m]
    BY <1>0, <1>3, <2>1, Zenon DEF TypeOK, Absent
  <2>3. DiskKept
    BY <1>3, <2>2, Zenon DEF DiskKept
  <2> QED BY <1>0, <1>3, <2>3, TableKept, Zenon DEF Returns, TypeOK
<1>4. ASSUME NEW type \in {0, 1}, NEW id \in Id, n # NoName, disk[n] # Absent,
             IsFree(id), Opens(p, id, NewOpenFile(n, type))
      PROVE  IInv'
  <2>1. /\ NewOpenFile(n, type) \in OpenFile /\ NewOpenFile(n, type).name = n
    BY <1>0, <1>4, NewOpenFileType
  <2> QED BY <1>0, <1>4, <2>1, EntryOpened, Zenon
<1>5. ASSUME NEW type \in 0 .. 2, Open(p, n, type) PROVE IInv'
  BY <1>1, <1>4, <1>5, Zenon DEF Open
<1>6. ASSUME Create(p, n) PROVE IInv'
  BY <1>1, <1>2, <1>6, Zenon DEF Create
<1>7. ASSUME Remove(p, n) PROVE IInv'
  BY <1>1, <1>3, <1>7, Zenon DEF Remove
<1> QED BY <1>5, <1>6, <1>7, Zenon

(* SC_Socket.                                                              *)
LEMMA SocketStep ==
    ASSUME IInv, NEW p \in Proc, Socket(p), UNCHANGED conduct
    PROVE  IInv'
<1>1. CASE Fails
  BY <1>1, FailsStep, Zenon
<1>2. ASSUME NEW id \in Id, IsFree(id), Opens(p, id, NewOpenFile("socket", 2))
      PROVE  IInv'
  <2>1. NewOpenFile("socket", 2) \in OpenFile /\ NewOpenFile("socket", 2).type = 2
    BY NewOpenFileType
  <2> QED BY <1>2, <2>1, EntryOpened, Zenon
<1> QED BY <1>1, <1>2, Zenon DEF Socket

(* An open file that is no socket.                                         *)
LEMMA FileEntry ==
    ASSUME IInv, NEW id, NEW first, IsFile(id, first)
    PROVE  /\ id \in Id /\ openfile[id] # NULL /\ openfile[id] \in OpenFile
           /\ openfile[id].name \in File /\ openfile[id].pos \in 0 .. MaxLen
           /\ disk[openfile[id].name] \in 0 .. MaxLen
<1>1. id \in Id /\ openfile[id] # NULL /\ openfile[id].type # 2
  BY Zenon DEF IsFile, Known
<1>2. openfile[id] \in OpenFile
  BY <1>1, Zenon DEF IInv, TypeOK
<1>3. openfile[id].name \in File /\ disk[openfile[id].name] # Absent
  BY <1>1, Zenon DEF IInv, Present
<1>4. disk[openfile[id].name] \in 0 .. MaxLen
  BY <1>3, FileTableAssumption DEF IInv, TypeOK, Absent
<1> QED BY <1>1, <1>2, <1>3, <1>4, Zenon DEF OpenFile

(* A new position in an entry.                                             *)
LEMMA Moved ==
    ASSUME NEW f \in OpenFile, NEW x \in 0 .. MaxLen
    PROVE  /\ [f EXCEPT !.pos = x] \in OpenFile
           /\ [f EXCEPT !.pos = x].name = f.name /\ [f EXCEPT !.pos = x].type = f.type
BY Zenon DEF OpenFile

(* SC_Read of a file stops at its end.                                     *)
LEMMA ReadStep ==
    ASSUME IInv, NEW p \in Proc, NEW id, NEW k \in Count, Passes(p, id),
           Read(p, id, k), UNCHANGED conduct
    PROVE  IInv'
<1>1. CASE IsFile(id, 0) /\ ReadFile(p, id, k)
  <2> DEFINE f == openfile[id]
             n == Min(k, Ahead(id))
  <2>1. /\ id \in Id /\ f # NULL /\ f \in OpenFile /\ f.pos \in 0 .. MaxLen
        /\ disk[f.name] \in 0 .. MaxLen
    BY <1>1, FileEntry, Zenon
  <2>2. n > 0 /\ n <= k /\ n <= disk[f.name] - f.pos /\ n \in Int
    BY <1>1, <2>1, FileTableAssumption DEF ReadFile, Min, Ahead, Count
  <2>3. /\ Becomes(p, id, [f EXCEPT !.pos = f.pos + n]) /\ result' = n
        /\ UNCHANGED <<disk, aborted>>
    BY <1>1, Zenon DEF ReadFile, Returns
  <2> HIDE DEF n
  <2>4. f.pos + n \in 0 .. MaxLen /\ n \in Result
    BY <2>1, <2>2, FileTableAssumption DEF Result, Count
  <2> HIDE DEF f
  <2>5. aborted' \in BOOLEAN
    BY <2>3, Zenon DEF IInv, TypeOK
  <2> QED BY <2>1, <2>3, <2>4, <2>5, Moved, EntryChanged, SameDisk, Zenon DEF f
<1> QED BY <1>1, FailsStep, SocketIOStep, Zenon DEF Read

(* SC_Write of a file makes it longer if need be, and never shorter.       *)
LEMMA WriteStep ==
    ASSUME IInv, NEW p \in Proc, NEW id, NEW k \in Count, Passes(p, id),
           Write(p, id, k), UNCHANGED conduct
    PROVE  IInv'
<1>1. CASE IsFile(id, 0) /\ k > 0 /\ WriteFile(p, id, k)
  <2> DEFINE f == openfile[id]
  <2>1. /\ id \in Id /\ f # NULL /\ f \in OpenFile /\ f.pos \in 0 .. MaxLen
        /\ f.name \in File /\ disk[f.name] \in 0 .. MaxLen
    BY <1>1, FileEntry, Zenon
  <2>2. /\ f.pos + k <= MaxLen /\ Becomes(p, id, [f EXCEPT !.pos = f.pos + k])
        /\ disk' = [disk EXCEPT ![f.name] = Max(disk[f.name], f.pos + k)]
        /\ result' = k /\ aborted' = aborted
    BY <1>1, Zenon DEF WriteFile, Returns
  <2> HIDE DEF f
  <2>3. f.pos + k \in 0 .. MaxLen /\ k \in Result
    BY <2>1, <2>2, FileTableAssumption DEF Result, Count
  <2>4. Max(disk[f.name], f.pos + k) \in 0 .. MaxLen
    BY <2>1, <2>3, Zenon DEF Max
  <2>5. DiskKept
    <3> DEFINE x == Max(disk[f.name], f.pos + k)
    <3>1. x \in -1 .. MaxLen /\ x # Absent
      BY <2>4, FileTableAssumption DEF Absent
    <3> HIDE DEF x
    <3>2. disk' \in [File -> -1 .. MaxLen] /\ disk'[f.name] = x
          /\ \A m \in File : m # f.name => disk'[m] = disk[m]
      BY <2>1, <2>2, <3>1, Zenon DEF IInv, TypeOK, x
    <3> QED BY <3>1, <3>2, Zenon DEF DiskKept
  <2>6. aborted' \in BOOLEAN
    BY <2>2, Zenon DEF IInv, TypeOK
  <2> QED BY <2>1, <2>2, <2>3, <2>5, <2>6, Moved, EntryChanged, Zenon DEF f
<1> QED BY <1>1, FailsStep, SocketIOStep, Zenon DEF Write

(* SC_Seek.                                                                *)
LEMMA SeekStep ==
    ASSUME IInv, NEW p \in Proc, NEW id, NEW pos \in Int, Passes(p, id),
           SeeksTo(id, pos), Seek(p, pos, id), UNCHANGED conduct
    PROVE  IInv'
<1>1. CASE ~IsFile(id, 2) /\ Fails
  BY <1>1, FailsStep
<1>2. CASE IsFile(id, 2)
  <2> DEFINE f == openfile[id]
             len == disk[f.name]
             new == IF pos = -1 THEN len ELSE pos
  <2>1. /\ id \in Id /\ f # NULL /\ f \in OpenFile /\ len \in 0 .. MaxLen
    BY <1>2, FileEntry, Zenon
  <2>2. Careful => pos \in -1 .. len
    <3>1. IsFile(id, 0)
      <4>1. \A i \in Id : i >= 2 => i >= 0
        BY ConsoleIds
      <4> QED BY <1>2, <4>1, Zenon DEF IsFile, Known
    <3> QED BY <3>1, Zenon DEF SeeksTo
  <2>3. \/ /\ pos > len /\ openfile' = [openfile EXCEPT ![id] = [f EXCEPT !.pos = len]]
           /\ result' = -1 /\ UNCHANGED <<disk, aborted, mine>>
        \/ pos < -1 /\ aborted' = TRUE /\ UNCHANGED <<disk, openfile, result, mine>>
        \/ /\ pos \in -1 .. len /\ Becomes(p, id, [f EXCEPT !.pos = new])
           /\ result' = new /\ UNCHANGED <<disk, aborted>>
    BY <1>2, Zenon DEF Seek, Fails, Returns
  <2>4. new \in Int
    BY <2>1
  <2>5. pos \in -1 .. len => new \in 0 .. MaxLen /\ new \in Result
    BY <2>1, FileTableAssumption DEF Result
  <2> HIDE DEF f, len, new
  <2>6. CASE /\ pos > len /\ openfile' = [openfile EXCEPT ![id] = [f EXCEPT !.pos = len]]
             /\ result' = -1 /\ UNCHANGED <<disk, aborted, mine>>
    <3>0. TypeOK /\ Present /\ Console /\ ~Careful
      BY <2>1, <2>2, <2>6 DEF IInv
    <3>1. /\ [f EXCEPT !.pos = len] \in OpenFile
          /\ [f EXCEPT !.pos = len].name = f.name /\ [f EXCEPT !.pos = len].type = f.type
      BY <2>1, Moved, Zenon
    <3>2. /\ openfile' \in [Id -> OpenFile \cup {NULL}]
          /\ openfile'[id] = [f EXCEPT !.pos = len]
          /\ \A i \in Id : i # id => openfile'[i] = openfile[i]
      BY <2>1, <2>6, <3>0, <3>1, Zenon DEF TypeOK
    <3>3. -1 \in -1 .. MaxFile + MaxLen
      BY FileTableAssumption
    <3>4. TypeOK'
      BY <2>6, <3>0, <3>2, <3>3, Zenon DEF TypeOK
    <3>5. Present'
      BY <2>1, <2>6, <3>0, <3>1, <3>2 DEF Present, f
    <3>6. Console'
      BY <2>1, <3>0, <3>1, <3>2, ConsoleIds, NullAssumption DEF Console
    <3>7. IdsAreStable'
      BY <3>0, Zenon DEF IdsAreStable, Careful
    <3> QED BY <3>4, <3>5, <3>6, <3>7, Zenon DEF IInv
  <2>7. CASE pos < -1 /\ aborted' = TRUE /\ UNCHANGED <<disk, openfile, result, mine>>
    <3>1. result' \in Result /\ aborted' \in BOOLEAN
      BY <2>7, Zenon DEF IInv, TypeOK, Result
    <3> QED BY <2>7, <3>1, SameDisk, TableKept, Zenon
  <2>8. CASE /\ pos \in -1 .. len /\ Becomes(p, id, [f EXCEPT !.pos = new])
             /\ result' = new /\ UNCHANGED <<disk, aborted>>
    <3>1. aborted' \in BOOLEAN
      BY <2>8, Zenon DEF IInv, TypeOK
    <3> QED BY <2>1, <2>5, <2>8, <3>1, Moved, EntryChanged, SameDisk, Zenon DEF f
  <2> QED BY <2>3, <2>6, <2>7, <2>8, Zenon
<1> QED BY <1>1, <1>2, Zenon DEF Seek

(* SC_Connect.                                                             *)
LEMMA ConnectStep ==
    ASSUME IInv, NEW p \in Proc, NEW id, Passes(p, id), Connect(p, id), UNCHANGED conduct
    PROVE  IInv'
<1>1. CASE ~IsSocket(id, 2) /\ Fails
  BY <1>1, FailsStep, Zenon
<1>2. ASSUME IsSocket(id, 2), NEW ok \in BOOLEAN,
             Becomes(p, id, [openfile[id] EXCEPT !.isConnect = ok]),
             result' = IF ok THEN 0 ELSE -1, UNCHANGED <<disk, aborted>>
      PROVE  IInv'
  <2> DEFINE e == [openfile[id] EXCEPT !.isConnect = ok]
  <2>1. id \in Id /\ openfile[id] # NULL /\ openfile[id] \in OpenFile
    BY <1>2, Zenon DEF IsSocket, Known, IInv, TypeOK
  <2>2. e \in OpenFile /\ e.name = openfile[id].name /\ e.type = openfile[id].type
    BY <2>1, Zenon DEF OpenFile
  <2>3. 0 \in Result /\ -1 \in Result
    BY FileTableAssumption DEF Result
  <2>4. result' \in Result
    BY <1>2, <2>3, Zenon
  <2>5. aborted' \in BOOLEAN
    BY <1>2, Zenon DEF IInv, TypeOK
  <2> HIDE DEF e
  <2> QED BY <1>2, <2>1, <2>2, <2>4, <2>5, EntryChanged, SameDisk, Zenon DEF e
<1> QED BY <1>1, <1>2, Zenon DEF Connect, Returns

(* SC_Send and SC_Receive.                                                 *)
LEMMA SendReceiveStep ==
    ASSUME IInv, NEW p \in Proc, NEW id, NEW k \in Count, NEW first,
           SendReceive(p, id, k, first), UNCHANGED conduct
    PROVE  IInv'
BY FailsStep, SocketIOStep, Zenon DEF SendReceive

(* SC_Exit: the entries stay, but nobody knows them any more.              *)
LEMMA ExitStep ==
    ASSUME IInv, NEW p \in Proc, Exit(p), UNCHANGED conduct
    PROVE  IInv'
<1>0. TypeOK /\ Present /\ Console /\ IdsAreStable
      /\ UNCHANGED <<disk, openfile, aborted, result, conduct>>
  BY Zenon DEF IInv, Exit
<1>1. /\ mine' \in [Proc -> [Id -> OpenFile \cup {NULL}]]
      /\ \A q \in Proc, i \in Id : mine'[q][i] = IF q = p THEN NULL ELSE mine[q][i]
  BY <1>0, Zenon DEF Exit, TypeOK
<1>2. TypeOK'
  BY <1>0, <1>1, Zenon DEF TypeOK
<1>3. Present' /\ Console'
  BY <1>0, Zenon DEF Present, Console
<1>4. IdsAreStable'
  BY <1>0, <1>1 DEF IdsAreStable, Careful
<1> QED BY <1>2, <1>3, <1>4, Zenon DEF IInv

(* The inductive invariant.                                                *)
LEMMA Invariance == Spec => []IInv
<1>1. IInv /\ [Next]_vars => IInv'
  <2> SUFFICES ASSUME IInv, [Next]_vars PROVE IInv'
    BY Zenon
  <2>1. ASSUME NEW p \in Proc, NEW id, Passes(p, id), NEW k \in Count, UNCHANGED conduct,
               \/ Read(p, id, k) \/ Write(p, id, k)
               \/ Send(p, id, k) \/ Receive(p, id, k)
        PROVE  IInv'
    BY <2>1, ReadStep, WriteStep, SendReceiveStep, Zenon DEF Send, Receive
  <2>2. ASSUME NEW p \in Proc, NEW id, Passes(p, id), NEW pos \in SeekPos,
               UNCHANGED conduct, SeeksTo(id, pos), Seek(p, pos, id)
        PROVE  IInv'
    <3>1. pos \in Int
      BY FileTableAssumption, Zenon
    <3> QED BY <2>2, <3>1, SeekStep, Zenon
  <2>3. CASE UNCHANGED vars
    <3>1. result' \in Result /\ aborted' \in BOOLEAN
      BY <2>3, Zenon DEF vars, IInv, TypeOK, Result
    <3> QED BY <2>3, <3>1, SameDisk, TableKept, Zenon DEF vars
  <2>4. CASE Next
    <3>1. UNCHANGED conduct
      BY <2>4, Zenon DEF Next
    <3> QED BY <2>1, <2>2, <2>4, <3>1, NameSteps, SocketStep, CloseStep, ConnectStep,
               ExitStep DEF Next
  <2> QED BY <2>3, <2>4, Zenon
<1> QED BY <1>1, InitIInv, PTL DEF Spec

(* Whatever programs do, the console's entries stay open and every file    *)
(* that is open is on the disk.                                            *)
THEOREM OpenFilesStay == Spec => []OpenFilesExist
<1>1. IInv => OpenFilesExist
  BY Zenon DEF IInv, Present, Console, OpenFilesExist
<1> QED BY <1>1, Invariance, PTL

(* Among careful programs an id is one process's until it is closed, and   *)
(* names what that process opened, at the position where it left it.       *)
THEOREM IdsStayOwned == Spec => []IdsAreStable
BY Invariance, PTL DEF IInv
=============================================================================
