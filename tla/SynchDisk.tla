----------------------------- MODULE SynchDisk ------------------------------
(***************************************************************************)
(* The simulated disk (machine/disk.cc) with its seek, rotation and track  *)
(* buffer timing, and SynchDisk (filesys/synchdisk.cc), which lets threads *)
(* use it one at a time and wait for its interrupt.  The data moves to or  *)
(* from the UNIX file at the request; only time and control are modelled.  *)
(* A thread may lose the processor at the end of a P() or V().             *)
(***************************************************************************)
EXTENDS Integers, FiniteSets

CONSTANTS Client,      \* the threads that use the disk
          SectorsPerTrack, NumTracks, SeekTime, RotationTime,
          Ticks,       \* UserTick and SystemTick
          MaxTicks     \* bound on the clock

ASSUME SynchDiskAssumption ==
    /\ SectorsPerTrack \in Nat \ {0} /\ NumTracks \in Nat \ {0}
    /\ SeekTime \in Nat /\ RotationTime \in Nat \ {0}
    /\ Ticks \subseteq Nat \ {0} /\ MaxTicks \in Nat

DiskSector == 0 .. SectorsPerTrack * NumTracks - 1

VARIABLES totalTicks,   \* the simulated time
          lastSector, bufferInit, active,   \* of class Disk
          due,          \* when the disk interrupt is scheduled; 0: it is not
          fast,         \* the request is served from the track buffer
          lock,         \* the value of SynchDisk::lock
          semaphore,    \* the value of SynchDisk::semaphore
          driverPc      \* where a thread is

diskVars == <<lastSector, bufferInit, active, due, fast>>
driverVars == <<totalTicks, diskVars, lock, semaphore, driverPc>>

DriverPC == {"idle", "Acquire", "Request", "P", "Release"}

DriverInit ==
    /\ totalTicks = 0
    /\ lastSector = 0 /\ bufferInit = 0 /\ active = FALSE
    /\ due = 0 /\ fast = FALSE
    /\ lock = 1 /\ semaphore = 0
    /\ driverPc = [t \in Client |-> "idle"]
-----------------------------------------------------------------------------
(* Definitions named Wrong... are plausible mistakes in the definition that *)
(* follows them; they are used only to show that the properties below      *)
(* notice them.                                                            *)

Track(s) == s \div SectorsPerTrack

Abs(n) == IF n < 0 THEN -n ELSE n

(* Disk::TimeToSeek: the time to get to the track.                         *)
TimeToSeek(s) == Abs(Track(s) - Track(lastSector)) * SeekTime

(* Disk::TimeToSeek: the time from then to the next sector boundary.       *)
Rotation(s) ==
    LET over == (totalTicks + TimeToSeek(s)) % RotationTime
    IN  IF over > 0 THEN RotationTime - over ELSE 0

TimeAfter(s) == totalTicks + TimeToSeek(s) + Rotation(s)

(* Disk::ModuloDiff.                                                       *)
ModuloDiff(to, from) ==
    (((to % SectorsPerTrack) - (from % SectorsPerTrack)) + SectorsPerTrack)
       % SectorsPerTrack

(* Disk::ComputeLatency: the read is served from the track buffer.         *)
InTrackBuffer(s, writing) ==
    /\ ~writing /\ TimeToSeek(s) = 0
    /\ (TimeAfter(s) - bufferInit) \div RotationTime
          > ModuloDiff(s, bufferInit \div RotationTime)

(* The time to the sector without the time to rotate past it.              *)
WrongComputeLatency(s, writing) ==
    IF InTrackBuffer(s, writing) THEN RotationTime
    ELSE TimeToSeek(s) + Rotation(s)
            + ModuloDiff(s, TimeAfter(s) \div RotationTime) * RotationTime

(* Disk::ComputeLatency.                                                   *)
ComputeLatency(s, writing) ==
    IF InTrackBuffer(s, writing) THEN RotationTime
    ELSE TimeToSeek(s) + Rotation(s)
            + ModuloDiff(s, TimeAfter(s) \div RotationTime) * RotationTime
            + RotationTime

(* Disk::UpdateLast.                                                       *)
UpdateLast(s) ==
    /\ bufferInit' = IF TimeToSeek(s) # 0 THEN TimeAfter(s) ELSE bufferInit
    /\ lastSector' = s
-----------------------------------------------------------------------------
DriverGo(t, to) == driverPc' = [driverPc EXCEPT ![t] = to]

(* A thread calls ReadSector or WriteSector (until the clock's bound).     *)
Call(t) ==
    /\ driverPc[t] = "idle" /\ totalTicks < MaxTicks
    /\ DriverGo(t, "Acquire")
    /\ UNCHANGED <<totalTicks, diskVars, lock, semaphore>>

(* ReadSector without the lock.                                            *)
WrongAcquireDisk(t) ==
    /\ driverPc[t] = "Acquire"
    /\ DriverGo(t, "Request")
    /\ UNCHANGED <<totalTicks, diskVars, lock, semaphore>>

(* lock->Acquire() returns.                                                *)
AcquireDisk(t) ==
    /\ driverPc[t] = "Acquire" /\ lock > 0
    /\ lock' = lock - 1
    /\ DriverGo(t, "Request")
    /\ UNCHANGED <<totalTicks, diskVars, semaphore>>

(* Disk::ReadRequest or WriteRequest, up to the P().                       *)
DiskRequest(t) ==
    /\ driverPc[t] = "Request"
    /\ \E s \in DiskSector, writing \in BOOLEAN :
          /\ due' = totalTicks + ComputeLatency(s, writing)
          /\ fast' = InTrackBuffer(s, writing)
          /\ UpdateLast(s)
    /\ active' = TRUE
    /\ DriverGo(t, "P")
    /\ UNCHANGED <<totalTicks, lock, semaphore>>

(* semaphore->P() returns.                                                 *)
P(t) ==
    /\ driverPc[t] = "P" /\ semaphore > 0
    /\ semaphore' = semaphore - 1
    /\ DriverGo(t, "Release")
    /\ UNCHANGED <<totalTicks, diskVars, lock>>

(* lock->Release().                                                        *)
ReleaseDisk(t) ==
    /\ driverPc[t] = "Release"
    /\ lock' = lock + 1
    /\ DriverGo(t, "idle")
    /\ UNCHANGED <<totalTicks, diskVars, semaphore>>

(* Disk::CallBack and SynchDisk::CallBack.                                 *)
CallBack ==
    /\ active' = FALSE /\ due' = 0
    /\ semaphore' = semaphore + 1
    /\ UNCHANGED <<lastSector, bufferInit, fast>>

(* Interrupt::CheckIfDue as far as it concerns the disk.                   *)
CheckIfDue ==
    IF due > 0 /\ due <= totalTicks' THEN CallBack ELSE UNCHANGED <<diskVars, semaphore>>

(* Interrupt::OneTick: the interrupt comes when the clock has reached its  *)
(* time, or gone past it.                                                  *)
ClockTick ==
    /\ due = 0 => totalTicks < MaxTicks
    /\ \E n \in Ticks : totalTicks' = totalTicks + n
    /\ CheckIfDue
    /\ UNCHANGED <<lock, driverPc>>

(* A thread that can go on.                                                *)
Runs(t) ==
    \/ driverPc[t] \in {"Request", "Release"}
    \/ driverPc[t] = "Acquire" /\ lock > 0
    \/ driverPc[t] = "P" /\ semaphore > 0

(* Interrupt::Idle: no thread can run, and the clock is set forward.       *)
ClockIdle ==
    /\ due > 0 /\ \A t \in Client : ~Runs(t)
    /\ totalTicks' = due
    /\ CheckIfDue
    /\ UNCHANGED <<lock, driverPc>>

Step(t) == AcquireDisk(t) \/ DiskRequest(t) \/ P(t) \/ ReleaseDisk(t)

DriverNext == ClockTick \/ ClockIdle \/ \E t \in Client : Call(t) \/ Step(t)

DriverSpec == DriverInit /\ [][DriverNext]_driverVars
-----------------------------------------------------------------------------
(* The longest a request can take.                                         *)
MaxLatency == (NumTracks - 1) * SeekTime + (SectorsPerTrack + 1) * RotationTime

DriverAt(S) == {t \in Client : driverPc[t] \in S}

(* ASSERT(!active), "only one request at a time": a thread that is about   *)
(* to make its request finds the disk idle, and the semaphore has no unit  *)
(* left over that would let it return before its data has moved.           *)
OneRequest ==
    /\ lock + Cardinality(DriverAt({"Request", "P", "Release"})) = 1
    /\ DriverAt({"Request"}) # {} => ~active /\ due = 0 /\ semaphore = 0
    /\ active <=> due > 0
    /\ DriverAt({"P"}) # {} <=> active \/ semaphore > 0

(* "Latency = seek time + rotational latency + transfer time": a request   *)
(* that goes to the disk is due just when the disk has come to "rotate     *)
(* completely past newSector", within a rotation after the seek.  One that *)
(* the track buffer serves is for a sector that has passed under the head  *)
(* since the disk came to this track, or is just passing.  The interrupt   *)
(* comes as soon as the clock is there.                                    *)
SectorHasPassed ==
    active =>
        LET passes(n) == /\ n % SectorsPerTrack = lastSector % SectorsPerTrack
                         /\ (n + 1) * RotationTime <= due
        IN  /\ totalTicks < due /\ due <= totalTicks + MaxLatency
            /\ bufferInit % RotationTime = 0
            /\ IF fast THEN \E n \in bufferInit \div RotationTime .. due \div RotationTime :
                                passes(n)
               ELSE due % RotationTime = 0 /\ passes(due \div RotationTime - 1)
=============================================================================
