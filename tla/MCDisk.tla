------------------------------- MODULE MCDisk -------------------------------
(***************************************************************************)
(* The disk and the file system on it for TLC.  A behaviour is one of      *)
(* three parts: Create and Remove of module DiskFileSystem, reads and      *)
(* writes of an open file, or requests of threads to the disk; the         *)
(* variables of the other two keep their initial values.                   *)
(***************************************************************************)
EXTENDS DiskFileSystem, DiskFile, SynchDisk

VARIABLE part

(* "longer" and "longest" agree in the characters that the directory keeps. *)
Names == {"x", "longer", "longest"}
Prefix == [n \in Names |-> IF n = "longest" THEN "longer" ELSE n]

(* Before, in and behind the file.                                         *)
Places == {-3, -1, 0, 1, 4, 6}

allVars == <<fsVars, part, fileVars, driverVars>>

PartInit ==
    /\ part \in {"system", "file", "disk"}
    /\ FSInit /\ OpenFileInit /\ DriverInit
    /\ part # "file" => \A i \in DOMAIN sectors : \A b \in DOMAIN sectors[i] :
                            sectors[i][b] = 0
    /\ part # "system" => \A i \in Entry : dir[i].name = Blank

PartNext ==
    \/ part = "system" /\ FSNext /\ UNCHANGED <<part, fileVars, driverVars>>
    \/ part = "file" /\ OpenFileNext /\ UNCHANGED <<part, fsVars, driverVars>>
    \/ part = "disk" /\ DriverNext /\ UNCHANGED <<part, fsVars, fileVars>>

PartSpec == PartInit /\ [][PartNext]_allVars
=============================================================================
