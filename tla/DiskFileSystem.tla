--------------------------- MODULE DiskFileSystem ---------------------------
(***************************************************************************)
(* The file system on the simulated disk (filesys/, compiled without       *)
(* FILESYS_STUB): class FileSystem over Directory, FileHeader and          *)
(* PersistentBitmap.  Create and Remove read the directory and the bitmap  *)
(* of sectors, change them in memory, and write them back one sector after *)
(* the other; Nachos may stop between two of the writes and be started     *)
(* again on the same disk.  As the code says, there is no concurrent       *)
(* access.                                                                 *)
(*                                                                         *)
(* A file header, the set of its data sectors here, takes one sector, and  *)
(* so does the bitmap.  The directory takes two (ten entries of 20 bytes,  *)
(* and sectors of 128): WriteAt writes the first of them, then the second. *)
(* Entry Across (the seventh) lies across them: inUse and sector are in    *)
(* the first, the name is in the second.                                   *)
(***************************************************************************)
EXTENDS Integers, Sequences, FiniteSets

CONSTANTS NumSectors, NumDirEntries, NumDirect,
          Across,    \* the entry that lies across the two sectors
          FileName,  \* the names that callers use
          Cut,       \* Cut[n]: its first FileNameMaxLen characters
          Size,      \* the sizes that callers ask for, in sectors
          MaxStops   \* bound on the operations that are cut short

Blank == "none"
Stored == {Cut[n] : n \in FileName}

(* Blank stands for what is in a name that was never set, when it is no    *)
(* name that a caller uses.                                                *)
ASSUME DiskFileSystemAssumption ==
    /\ Blank \notin FileName
    /\ NumSectors \in Nat /\ NumSectors >= 5 /\ NumDirEntries \in Nat \ {0}
    /\ NumDirect \in Nat /\ MaxStops \in Nat
    /\ Across \in 0 .. NumDirEntries - 1
    /\ IsFiniteSet(FileName) /\ Cut \in [FileName -> FileName]
    /\ \A n \in FileName : Cut[Cut[n]] = Cut[n]
    /\ Size \subseteq Nat

Sector == 0 .. NumSectors - 1
Entry == 0 .. NumDirEntries - 1

VARIABLES freeMap,   \* the sectors marked in the bitmap on disk
          dir,       \* the directory on disk
          hdr,       \* the file headers on disk
          mem,       \* their new versions, and the entry of the directory that
                     \* they add or take away
          todo,      \* the writes that the operation still has to do
          mode,      \* "up", or "corrupt": see Corrupts
          stops,     \* the number of operations that were cut short
          torn       \* the names that such a Create may have given a file

onDisk == <<freeMap, dir, hdr>>
history == <<mode, stops, torn>>
fsVars == <<onDisk, mem, todo, history>>

(* What k calls of FindAndSet find: the first k sectors that are clear.    *)
FindAndSet(map, k) ==
    {s \in Sector \ map : Cardinality({r \in Sector \ map : r < s}) < k}

NumClear(map) == Cardinality(Sector \ map)

FreeMapSector == 0
DirectorySector == 1

(* The sectors of the bitmap and the directory and of their headers.       *)
System == 0 .. 4

(* Definitions named Wrong... are plausible mistakes in the definition that *)
(* follows them; they are used only to show that the properties below      *)
(* notice them.                                                            *)

(* Nothing is in memory between operations.                                *)
Nothing == [map |-> {}, dir |-> << >>, hdr |-> << >>, at |-> 0]

(* FileSystem::FileSystem with format: the bitmap gets one data sector,    *)
(* the directory two.  Directory::Directory sets nothing but inUse.        *)
FSInit ==
    /\ freeMap = System
    /\ \E name \in [Entry -> Stored \cup {Blank}] :
          dir = [i \in Entry |-> [inUse |-> FALSE, sector |-> 0, name |-> name[i]]]
    /\ hdr = [s \in Sector |->
                IF s = FreeMapSector THEN {2}
                ELSE IF s = DirectorySector THEN {3, 4} ELSE {}]
    /\ mem = Nothing
    /\ todo = << >>
    /\ mode = "up" /\ stops = 0 /\ torn = {}

Ready == mode = "up" /\ todo = << >>
-----------------------------------------------------------------------------
InUse == {i \in Entry : dir[i].inUse}

(* Directory::FindIndex: the first entry in use whose name agrees in the   *)
(* first FileNameMaxLen characters (strncmp).                              *)
FindIndex(n) ==
    {i \in InUse : /\ dir[i].name = Cut[n]
                   /\ \A j \in InUse : j < i => dir[j].name # Cut[n]}

(* Directory::Add takes the first entry that is not in use.                *)
FreeEntry(i) == i \notin InUse /\ \A j \in 0 .. i - 1 : j \in InUse

(* FileHeader::Allocate has enough sectors.  It does not ask whether the   *)
(* header has room for them.                                               *)
Allocates(map, k) == NumClear(map) >= k


(* FileSystem::Create writes back the header, the directory, the bitmap.   *)
CreateOrder == <<"hdr", "dirA", "dirB", "map">>

(* FileSystem::Create fails, and the changes in memory are forgotten.      *)
CreateFileFails(n, k) ==
    /\ Ready
    /\ \/ FindIndex(n) # {}
       \/ NumClear(freeMap) = 0
       \/ InUse = Entry
       \/ NumClear(freeMap) > 0 /\ ~Allocates(freeMap \cup FindAndSet(freeMap, 1), k)
    /\ UNCHANGED fsVars

(* The sectors of the file of an entry.                                    *)
Used(i) == {dir[i].sector} \cup hdr[dir[i].sector]

(* The sectors that files have and that are not marked, after a stop.      *)
Unmarked == UNION {Used(i) : i \in InUse} \ freeMap

(* What happens next is not modelled when Allocate writes behind the end   *)
(* of dataSectors, or when the new file gets a sector of another file.     *)
Corrupts(k, taken) == k > NumDirect \/ taken \cap Unmarked # {}

(* FileSystem::Create, up to its writes.                                   *)
CreateFile(n, k) ==
    /\ Ready
    /\ FindIndex(n) = {}
    /\ \E s \in FindAndSet(freeMap, 1), i \in Entry :
          LET map == freeMap \cup {s}
              data == FindAndSet(map, k)
          IN  /\ FreeEntry(i) /\ Allocates(map, k)
              /\ IF Corrupts(k, {s} \cup data)
                 THEN mode' = "corrupt" /\ UNCHANGED <<mem, todo>>
                 ELSE /\ mem' = [map |-> map \cup data,
                                 dir |-> [dir EXCEPT ![i] =
                                     [inUse |-> TRUE, sector |-> s, name |-> Cut[n]]],
                                 hdr |-> [hdr EXCEPT ![s] = data],
                                 at |-> i]
                      /\ todo' = CreateOrder
                      /\ UNCHANGED mode
    /\ UNCHANGED <<onDisk, stops, torn>>

(* Remove that gives back the data sectors only.                           *)
WrongFreed(s) == hdr[s]

(* FileHeader::Deallocate, and the header's own sector.                    *)
Freed(s) == hdr[s] \cup {s}

(* The order of the writes of Remove: the directory first.                 *)
WrongRemoveOrder == <<"dirA", "dirB", "map">>

(* FileSystem::Remove writes back the bitmap, then the directory.          *)
RemoveOrder == <<"map", "dirA", "dirB">>

(* FileSystem::Remove fails for a name that is not there; when a data      *)
(* sector is not marked, the assertion in Deallocate ends Nachos, with     *)
(* nothing written.                                                        *)
RemoveFileFails(n) ==
    /\ Ready
    /\ \A i \in FindIndex(n) : ~(hdr[dir[i].sector] \subseteq freeMap)
    /\ UNCHANGED fsVars

(* FileSystem::Remove, up to its writes.                                   *)
RemoveFile(n) ==
    /\ Ready
    /\ \E i \in FindIndex(n) :
          /\ hdr[dir[i].sector] \subseteq freeMap
          /\ mem' = [map |-> freeMap \ Freed(dir[i].sector),
                     dir |-> [dir EXCEPT ![i].inUse = FALSE],
                     hdr |-> hdr, at |-> i]
    /\ todo' = RemoveOrder
    /\ UNCHANGED <<onDisk, history>>

(* The first sector of the directory holds the entries before Across, and  *)
(* inUse and sector of Across.                                             *)
FirstSector ==
    [i \in Entry |->
        IF i < Across THEN mem.dir[i]
        ELSE IF i = Across THEN [mem.dir[i] EXCEPT !.name = dir[i].name] ELSE dir[i]]

(* The next of the writes: WriteSector of a header, of the bitmap, or of a *)
(* sector of the directory.                                                *)
WriteBack ==
    /\ todo # << >>
    /\ hdr' = IF Head(todo) = "hdr" THEN mem.hdr ELSE hdr
    /\ dir' = CASE Head(todo) = "dirA" -> FirstSector
                [] Head(todo) = "dirB" -> mem.dir
                [] OTHER -> dir
    /\ freeMap' = IF Head(todo) = "map" THEN mem.map ELSE freeMap
    /\ todo' = Tail(todo)
    /\ mem' = IF Len(todo) = 1 THEN Nothing ELSE mem
    /\ UNCHANGED history

(* Create has written the entry Across, but not its name.                  *)
Tearing == todo = <<"dirB", "map">> /\ mem.at = Across

(* Nachos stops in the middle of an operation, and is started again.       *)
StopFS ==
    /\ todo # << >> /\ stops < MaxStops
    /\ todo' = << >> /\ mem' = Nothing
    /\ stops' = stops + 1
    /\ torn' = IF Tearing THEN torn \cup {dir[Across].name} ELSE torn
    /\ UNCHANGED <<onDisk, mode>>

FSNext ==
    \/ WriteBack
    \/ StopFS
    \/ \E n \in FileName :
          \/ RemoveFile(n) \/ RemoveFileFails(n)
          \/ \E k \in Size : CreateFile(n, k) \/ CreateFileFails(n, k)

FSSpec == FSInit /\ [][FSNext]_fsVars
-----------------------------------------------------------------------------
(* Types.                                                                  *)
FSTypeOK ==
    /\ System \subseteq freeMap /\ freeMap \subseteq Sector
    /\ dir \in [Entry -> [inUse : BOOLEAN, sector : Sector,
                          name : Stored \cup {Blank}]]
    /\ hdr \in [Sector -> SUBSET Sector]
    /\ todo \in {<< >>, RemoveOrder, Tail(RemoveOrder), Tail(Tail(RemoveOrder)),
                 CreateOrder, Tail(CreateOrder), Tail(Tail(CreateOrder)),
                 Tail(Tail(Tail(CreateOrder)))}
    /\ mode \in {"up", "corrupt"}
    /\ stops \in 0 .. MaxStops
    /\ torn \subseteq Stored \cup {Blank}

AllUsed == System \cup UNION {Used(i) : i \in InUse}

(* No two files have the same name, unless an unfinished Create has given  *)
(* it to one: Find finds the file.                                         *)
NamesAreUnique ==
    \A i, j \in InUse : dir[i].name = dir[j].name =>
        i = j \/ dir[i].name \in torn \/ (Tearing /\ Across \in {i, j})

(* Between operations a sector is marked exactly when it belongs to the    *)
(* system or to a file, and to one file only, as long as no operation was  *)
(* cut short: Deallocate's assertion that the sectors "ought to be marked" *)
(* holds, and no sector is lost.                                           *)
MapIsExact ==
    /\ FSTypeOK /\ NamesAreUnique
    /\ todo = << >> /\ stops = 0 =>
          /\ freeMap = AllUsed
          /\ \A i, j \in InUse : i # j => Used(i) \cap Used(j) = {}
          /\ \A i \in InUse : Used(i) \cap System = {}

(* The entry that the operation under way adds or takes away.              *)
Busy(i) == todo # << >> /\ mem.at = i

(* The files that have no sector marked.                                   *)
Dangling == {i \in InUse : Used(i) \cap freeMap = {}}

(* "if Nachos exits in the middle of an operation that modifies the file   *)
(* system, it may corrupt the disk": each exit damages at most the file of *)
(* the operation, which is left with none of its sectors marked.  All      *)
(* other files keep their sectors marked and for themselves, also in the   *)
(* operations after the next start, and no sector is marked that no file   *)
(* has, until a Create takes a sector of a damaged file.                   *)
DamageIsLimited ==
    /\ Cardinality({i \in Dangling : ~Busy(i)}) <= stops
    /\ \A i \in InUse : ~Busy(i) =>
          /\ i \in Dangling \/ Used(i) \subseteq freeMap
          /\ \A j \in InUse \ {i} : Used(i) \cap Used(j) = {}
    /\ freeMap \subseteq AllUsed

(* The entries that a name finds; the one that Create has half written is  *)
(* not there yet.                                                          *)
Visible == IF Tearing THEN InUse \ {Across} ELSE InUse

(* The files that names find, and their sizes.                             *)
Files ==
    [f \in {dir[i].name : i \in Visible} \cap Stored |->
        LET i == CHOOSE j \in Visible : /\ dir[j].name = f
                                        /\ \A k \in Visible : k < j => dir[k].name # f
        IN  Cardinality(hdr[dir[i].sector])]

(* Create and Remove take effect in one step or not at all, and a name     *)
(* finds the file that it was created for, also when Nachos stops and is   *)
(* started again.  The exception is a stop between the two sectors of the  *)
(* directory: the new file then has the name that was in the entry before. *)
Flat == INSTANCE FlatFiles WITH FileName <- Stored, files <- Files,
                                torn <- torn \cap Stored
=============================================================================
