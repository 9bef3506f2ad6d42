---------------------------- MODULE DeviceProofs ----------------------------
(***************************************************************************)
(* Proofs about the simulated devices and their drivers.                   *)
(*                                                                         *)
(* SynchDisk, for any threads and any geometry of the disk: OneRequest and *)
(* SectorHasPassed.                                                        *)
(*                                                                         *)
(* Interrupt, for any finite sets of threads and devices, any delays and   *)
(* any ticks: StatusMatchesCode and NothingOverdue.                        *)
(***************************************************************************)
EXTENDS Interrupt, SynchDisk, SetFacts, TLAPS

(* A thread has the lock from Acquire to Release.                          *)
HasDisk(t) == driverPc[t] \in {"Request", "P", "Release"}

(* OneRequest without counting, with the types.                            *)
DiskInv ==
    /\ totalTicks \in Nat /\ due \in Nat /\ lastSector \in DiskSector
    /\ active \in BOOLEAN
    /\ lock \in 0 .. 1 /\ semaphore \in 0 .. 1
    /\ driverPc \in [Client -> DriverPC]
    /\ lock = 0 <=> \E t \in Client : HasDisk(t)
    /\ \A t, u \in Client : HasDisk(t) /\ HasDisk(u) => t = u
    /\ active <=> due > 0
    /\ \A t \in Client : driverPc[t] = "Request" => due = 0 /\ semaphore = 0
    /\ (\E t \in Client : driverPc[t] = "P") <=> (due > 0 \/ semaphore = 1)
    /\ ~(due > 0 /\ semaphore = 1)

(* Products of what is not negative.                                       *)
LEMMA Times == \A m, n \in Nat : m * n \in Nat
OBVIOUS

(* Tracks.                                                                 *)
LEMMA TrackType ==
    ASSUME NEW s \in DiskSector
    PROVE  Track(s) \in Nat
BY SynchDiskAssumption DEF DiskSector, Track

(* A request takes time: the sector has to pass under the head.            *)
LEMMA LatencyPositive ==
    ASSUME totalTicks \in Nat, lastSector \in DiskSector,
           NEW s \in DiskSector, NEW writing \in BOOLEAN
    PROVE  ComputeLatency(s, writing) \in Nat \ {0}
<1>1. TimeToSeek(s) \in Nat
  <2> DEFINE d == Abs(Track(s) - Track(lastSector))
  <2>1. d \in Nat
    BY TrackType DEF Abs
  <2> HIDE DEF d
  <2>2. d * SeekTime \in Nat
    BY <2>1, Times, SynchDiskAssumption, Zenon
  <2> QED BY <2>2, Zenon DEF TimeToSeek, d
<1>2. Rotation(s) \in Nat
  BY <1>1, SynchDiskAssumption DEF Rotation
<1>3. TimeAfter(s) \in Nat
  BY <1>1, <1>2 DEF TimeAfter
<1>4. TimeAfter(s) \div RotationTime \in Nat
  BY <1>3, SynchDiskAssumption
<1>5. ModuloDiff(s, TimeAfter(s) \div RotationTime) \in Nat
  <2>1. s \in Nat
    BY DEF DiskSector
  <2> QED BY <1>4, <2>1, SynchDiskAssumption DEF ModuloDiff
<1>6. ModuloDiff(s, TimeAfter(s) \div RotationTime) * RotationTime \in Nat
  BY <1>5, Times, SynchDiskAssumption, Zenon
<1> QED BY <1>1, <1>2, <1>6, SynchDiskAssumption DEF ComputeLatency

(* The disk at rest.                                                       *)
LEMMA InitDisk == ASSUME DriverInit PROVE DiskInv
<1>1. 0 \in DiskSector
  <2>1. \A m, n \in Nat \ {0} : m * n >= 1
    OBVIOUS
  <2> QED BY <2>1, SynchDiskAssumption DEF DiskSector
<1>2. driverPc \in [Client -> DriverPC] /\ \A t \in Client : driverPc[t] = "idle"
  BY Zenon DEF DriverInit, DriverPC
<1>3. \A t \in Client : ~HasDisk(t)
  BY <1>2, Zenon DEF HasDisk
<1>4. totalTicks = 0 /\ due = 0 /\ lastSector = 0 /\ lock = 1 /\ semaphore = 0
  BY Zenon DEF DriverInit
<1>5. active \in BOOLEAN /\ (active <=> due > 0)
  <2>1. ~(due > 0)
    BY <1>4
  <2> QED BY <2>1, Zenon DEF DriverInit
<1> QED BY <1>1, <1>2, <1>3, <1>4, <1>5 DEF DiskInv

(* What a thread does with the lock and the semaphore.                     *)
LEMMA ThreadSteps ==
    ASSUME DiskInv, NEW t \in Client,
           Call(t) \/ AcquireDisk(t) \/ P(t) \/ ReleaseDisk(t)
    PROVE  DiskInv'
<1>1. UNCHANGED <<totalTicks, lastSector, active, due>>
  BY Zenon DEF Call, AcquireDisk, P, ReleaseDisk, diskVars
<1>2. PICK to \in DriverPC : driverPc' = [driverPc EXCEPT ![t] = to]
  BY Zenon DEF Call, AcquireDisk, P, ReleaseDisk, DriverGo, DriverPC
<1>3. /\ driverPc' \in [Client -> DriverPC] /\ driverPc'[t] = to
      /\ \A u \in Client : u # t => driverPc'[u] = driverPc[u]
  BY <1>2, Zenon DEF DiskInv
<1>4. CASE Call(t)
  <2>1. driverPc[t] = "idle" /\ driverPc'[t] = "Acquire" /\ UNCHANGED <<lock, semaphore>>
    BY <1>4, Zenon DEF Call, DriverGo, DiskInv
  <2> QED BY <1>1, <1>3, <2>1, Zenon DEF DiskInv, HasDisk
<1>5. CASE AcquireDisk(t)
  <2>1. /\ driverPc[t] = "Acquire" /\ driverPc'[t] = "Request"
        /\ lock = 1 /\ lock' = 0 /\ semaphore' = semaphore
    BY <1>5 DEF AcquireDisk, DriverGo, DiskInv
  <2> QED BY <1>1, <1>3, <2>1 DEF DiskInv, HasDisk
<1>6. CASE P(t)
  <2>1. /\ driverPc[t] = "P" /\ driverPc'[t] = "Release"
        /\ semaphore = 1 /\ semaphore' = 0 /\ lock' = lock
    BY <1>6 DEF P, DriverGo, DiskInv
  <2> QED BY <1>1, <1>3, <2>1 DEF DiskInv, HasDisk
<1>7. CASE ReleaseDisk(t)
  <2>1. /\ driverPc[t] = "Release" /\ driverPc'[t] = "idle"
        /\ lock = 0 /\ lock' = 1 /\ semaphore' = semaphore
    BY <1>7 DEF ReleaseDisk, DriverGo, DiskInv, HasDisk
  <2> QED BY <1>1, <1>3, <2>1 DEF DiskInv, HasDisk
<1> QED BY <1>4, <1>5, <1>6, <1>7, Zenon

(* The request: its interrupt is in the future.                            *)
LEMMA RequestStep ==
    ASSUME DiskInv, NEW t \in Client, DiskRequest(t)
    PROVE  DiskInv'
<1>1. PICK s \in DiskSector, writing \in BOOLEAN :
         due' = totalTicks + ComputeLatency(s, writing) /\ lastSector' = s
  BY Zenon DEF DiskRequest, UpdateLast
<1>2. due' \in Nat /\ due' > 0
  BY <1>1, LatencyPositive DEF DiskInv
<1>3. /\ driverPc[t] = "Request" /\ driverPc' = [driverPc EXCEPT ![t] = "P"]
      /\ active' = TRUE /\ UNCHANGED <<totalTicks, lock, semaphore>>
  BY Zenon DEF DiskRequest, DriverGo
<1>4. /\ driverPc' \in [Client -> DriverPC] /\ driverPc'[t] = "P"
      /\ \A u \in Client : u # t => driverPc'[u] = driverPc[u]
  BY <1>3, Zenon DEF DiskInv, DriverPC
<1> QED BY <1>1, <1>2, <1>3, <1>4, Zenon DEF DiskInv, HasDisk

(* The clock goes on, and the interrupt of a request comes or is not yet   *)
(* due.                                                                    *)
LEMMA ClockCases ==
    ASSUME DiskInv, ClockTick \/ ClockIdle
    PROVE  /\ totalTicks' \in Nat /\ UNCHANGED <<lock, driverPc>>
           /\ \/ due > 0 /\ CallBack
              \/ /\ UNCHANGED <<lastSector, bufferInit, active, due, fast, semaphore>>
                 /\ totalTicks <= totalTicks' /\ (due > 0 => totalTicks' < due)
<1>1. totalTicks \in Nat /\ due \in Nat
  BY Zenon DEF DiskInv
<1>2. CASE ClockTick
  <2>1. PICK n \in Ticks : totalTicks' = totalTicks + n
    BY <1>2, Zenon DEF ClockTick
  <2>2. totalTicks' \in Nat /\ totalTicks <= totalTicks'
    BY <1>1, <2>1, SynchDiskAssumption
  <2>3. CASE due > 0 /\ due <= totalTicks'
    BY <1>2, <2>2, <2>3, Zenon DEF ClockTick, CheckIfDue
  <2>4. CASE ~(due > 0 /\ due <= totalTicks')
    <3>1. due > 0 => totalTicks' < due
      BY <1>1, <2>2, <2>4
    <3> QED BY <1>2, <2>2, <2>4, <3>1, Zenon DEF ClockTick, CheckIfDue, diskVars
  <2> QED BY <2>3, <2>4, Zenon
<1>3. CASE ClockIdle
  <2>1. due > 0 /\ due <= totalTicks' /\ totalTicks' \in Nat
    BY <1>1, <1>3 DEF ClockIdle
  <2> QED BY <1>3, <2>1, Zenon DEF ClockIdle, CheckIfDue
<1> QED BY <1>2, <1>3, Zenon

(* Time, and the interrupt.                                                *)
LEMMA DeviceSteps ==
    ASSUME DiskInv, ClockTick \/ ClockIdle
    PROVE  DiskInv'
<1>0. totalTicks' \in Nat /\ UNCHANGED <<lock, driverPc>>
  BY ClockCases, Zenon
<1>1. CASE UNCHANGED <<lastSector, active, due, semaphore>>
  BY <1>0, <1>1, Zenon DEF DiskInv, HasDisk
<1>2. CASE due > 0 /\ CallBack
  <2>1. /\ due > 0 /\ due' = 0
        /\ semaphore = 0 /\ semaphore' = 1
        /\ UNCHANGED lastSector
    BY <1>2 DEF CallBack, DiskInv
  <2>2. \A t \in Client : HasDisk(t)' <=> HasDisk(t)
    BY <1>0, Zenon DEF HasDisk
  <2>3. PICK t \in Client : driverPc[t] = "P"
    BY <2>1, Zenon DEF DiskInv
  <2>4. \A u \in Client : driverPc[u] # "Request"
    BY <2>1 DEF DiskInv
  <2>5. active' \in BOOLEAN /\ (active' <=> due' > 0)
    <3>1. ~(due' > 0)
      BY <2>1
    <3> QED BY <1>2, <3>1, Zenon DEF CallBack
  <2> QED BY <1>0, <2>1, <2>2, <2>3, <2>4, <2>5 DEF DiskInv
<1> QED BY <1>1, <1>2, ClockCases, Zenon

(* The invariant of the disk and its driver.                               *)
LEMMA DiskInvariance == DriverSpec => []DiskInv
<1>1. DiskInv /\ [DriverNext]_driverVars => DiskInv'
  <2> SUFFICES ASSUME DiskInv, [DriverNext]_driverVars PROVE DiskInv'
    BY Zenon
  <2>1. CASE UNCHANGED driverVars
    BY <2>1, Zenon DEF driverVars, diskVars, DiskInv, HasDisk
  <2>2. CASE DriverNext
    BY <2>2, DeviceSteps, ThreadSteps, RequestStep, SMTT(30) DEF DriverNext, Step
  <2> QED BY <2>1, <2>2, Zenon
<1>2. DriverInit => DiskInv
  BY InitDisk
<1> QED BY <1>1, <1>2, PTL DEF DriverSpec

(* Quotient and remainder.                                                 *)
LEMMA DivMod ==
    ASSUME NEW a \in Nat, NEW b \in Nat \ {0}
    PROVE  /\ a \div b \in Nat /\ a % b \in 0 .. b - 1
           /\ a = b * (a \div b) + (a % b)
OBVIOUS

(* DivMod, with names for quotient and remainder.                          *)
LEMMA Split ==
    ASSUME NEW a \in Nat, NEW b \in Nat \ {0}
    PROVE  \E q \in Nat, r \in 0 .. b - 1 :
              q = a \div b /\ r = a % b /\ a = b * q + r
<1> DEFINE q == a \div b
           r == a % b
<1>1. q \in Nat /\ r \in 0 .. b - 1 /\ a = b * q + r
  BY DivMod, Zenon
<1> QED BY <1>1, Zenon

(* They are the only ones.                                                 *)
LEMMA DivModUnique ==
    ASSUME NEW q \in Nat, NEW b \in Nat \ {0}, NEW r \in 0 .. b - 1
    PROVE  (b * q + r) \div b = q /\ (b * q + r) % b = r
<1> DEFINE a == b * q + r
           p == a \div b
           o == a % b
<1>1. a \in Nat
  OBVIOUS
<1>2. p \in Nat /\ o \in 0 .. b - 1 /\ a = b * p + o
  BY <1>1, DivMod, Zenon
<1> HIDE DEF p, o
<1>3. p = q
  <2>1. ASSUME NEW x \in Nat, NEW y \in Nat, x < y PROVE b * x + b <= b * y
    <3>1. b * (y - x) >= b
      <4> DEFINE z == y - x
      <4>1. z \in Nat \ {0}
        BY <2>1
      <4> HIDE DEF z
      <4>2. b * z >= b
        BY <4>1
      <4> QED BY <4>2 DEF z
    <3> QED BY <3>1
  <2>2. CASE p < q
    BY <1>2, <2>1, <2>2
  <2>3. CASE q < p
    BY <1>2, <2>1, <2>3
  <2> QED BY <1>2, <2>2, <2>3
<1>4. o = r
  BY <1>2, <1>3
<1> QED BY <1>3, <1>4 DEF p, o

(* ModuloDiff (disk.cc) is how many sectors after m the next s comes by.   *)
LEMMA NextAtSector ==
    ASSUME NEW s \in Nat, NEW m \in Nat
    PROVE  /\ ModuloDiff(s, m) \in 0 .. SectorsPerTrack - 1
           /\ (m + ModuloDiff(s, m)) % SectorsPerTrack = s % SectorsPerTrack
<1>1. PICK S \in Nat \ {0} : S = SectorsPerTrack
  BY SynchDiskAssumption, Zenon
<1>2. PICK x \in 0 .. S - 1 : x = s % S
  BY <1>1, DivMod, Zenon
<1>3. PICK k \in Nat, y \in 0 .. S - 1 :
         k = m \div S /\ y = m % S /\ m = S * k + y
  BY Split, Zenon
<1>4. PICK d \in Int : d = ModuloDiff(s, m) /\ d = ((x - y) + S) % S
  <2>1. (x - y) + S \in Nat
    OBVIOUS
  <2>2. ((x - y) + S) % S \in Int
    BY <2>1, DivMod
  <2> QED BY <1>1, <1>2, <1>3, <2>2, Zenon DEF ModuloDiff
<1>5. CASE x >= y
  <2>1. x - y \in 0 .. S - 1 /\ (x - y) + S = S * 1 + (x - y)
    BY <1>5
  <2>2. d = x - y
    BY <1>4, <2>1, DivModUnique
  <2>3. m + d = S * k + x
    BY <1>3, <2>2
  <2>4. (S * k + x) % S = x
    BY DivModUnique
  <2> QED BY <1>1, <1>2, <1>4, <2>1, <2>2, <2>3, <2>4, Zenon
<1>6. CASE x < y
  <2>1. (x - y) + S \in 0 .. S - 1 /\ (x - y) + S = S * 0 + ((x - y) + S)
    BY <1>6
  <2>2. d = (x - y) + S
    BY <1>4, <2>1, DivModUnique
  <2>3. m + d = S * (k + 1) + x
    <3>1. S * (k + 1) = S * k + S
      OBVIOUS
    <3>2. m = S * k + y
      BY <1>3, Zenon
    <3> QED BY <2>2, <3>1, <3>2
  <2>4. (S * (k + 1) + x) % S = x
    BY DivModUnique
  <2> QED BY <1>1, <1>2, <1>4, <2>1, <2>2, <2>3, <2>4
<1> QED BY <1>5, <1>6

(* A seek is no longer than one over all tracks.                           *)
LEMMA SeekInRange ==
    ASSUME NEW s \in DiskSector, lastSector \in DiskSector
    PROVE  TimeToSeek(s) \in 0 .. (NumTracks - 1) * SeekTime
<1>1. PICK S \in Nat \ {0}, N \in Nat \ {0}, K \in Nat :
         S = SectorsPerTrack /\ N = NumTracks /\ K = SeekTime
  BY SynchDiskAssumption, Zenon
<1>2. ASSUME NEW x \in DiskSector PROVE Track(x) \in 0 .. N - 1
  <2>1. x \in Nat /\ x < S * N
    BY <1>1, SynchDiskAssumption DEF DiskSector
  <2>2. PICK q \in Nat, r \in 0 .. S - 1 :
           q = x \div S /\ r = x % S /\ x = S * q + r
    <3>1. x \in Nat
      BY <2>1
    <3> QED BY <3>1, Split, Zenon
  <2>3. CASE q >= N
    <3>1. PICK z \in Nat : q = N + z
      <4>1. q - N \in Nat /\ q = N + (q - N)
        BY <2>3
      <4> QED BY <4>1, Zenon
    <3>2. S * q = S * N + S * z /\ S * z >= 0
      BY <3>1
    <3> QED BY <2>1, <2>2, <3>2
  <2> QED BY <1>1, <2>2, <2>3 DEF Track
<1>3. PICK d \in 0 .. N - 1 : d = Abs(Track(s) - Track(lastSector))
  <2>1. Abs(Track(s) - Track(lastSector)) \in 0 .. N - 1
    BY <1>2 DEF Abs
  <2> QED BY <2>1, Zenon
<1>4. d * K \in 0 .. (N - 1) * K
  <2>1. PICK z \in Nat : N - 1 = d + z
    <3>1. (N - 1) - d \in Nat /\ N - 1 = d + ((N - 1) - d)
      OBVIOUS
    <3> QED BY <3>1, Zenon
  <2>2. (N - 1) * K = d * K + z * K /\ z * K >= 0 /\ d * K >= 0
    BY <2>1
  <2>3. d * K \in Int /\ (N - 1) * K \in Int
    OBVIOUS
  <2> QED BY <2>2, <2>3
<1> QED BY <1>1, <1>3, <1>4, Zenon DEF TimeToSeek

(* After the seek and the rotation the head is at the start of a sector.   *)
LEMMA AtBoundary ==
    ASSUME totalTicks \in Nat, lastSector \in DiskSector, NEW s \in DiskSector
    PROVE  /\ Rotation(s) \in 0 .. RotationTime - 1
           /\ \E k \in Nat : TimeAfter(s) = RotationTime * k
<1>1. PICK R \in Nat \ {0} : R = RotationTime
  BY SynchDiskAssumption, Zenon
<1>2. PICK a \in Nat : a = totalTicks + TimeToSeek(s)
  <2>1. totalTicks + TimeToSeek(s) \in Nat
    BY SeekInRange
  <2> QED BY <2>1, Zenon
<1>3. PICK q \in Nat, r \in 0 .. R - 1 :
         q = a \div R /\ r = a % R /\ a = R * q + r
  BY Split, Zenon
<1>4. Rotation(s) = IF r > 0 THEN R - r ELSE 0
  BY <1>1, <1>2, <1>3, Zenon DEF Rotation
<1>5. Rotation(s) \in 0 .. R - 1
  BY <1>4
<1>6. TimeAfter(s) = a + Rotation(s)
  BY <1>2, Zenon DEF TimeAfter
<1>7. CASE r > 0
  <2>1. TimeAfter(s) = R * (q + 1) /\ q + 1 \in Nat
    BY <1>3, <1>4, <1>6, <1>7
  <2> QED BY <1>1, <1>5, <2>1, Zenon
<1>8. CASE r = 0
  <2>1. TimeAfter(s) = R * q
    BY <1>3, <1>4, <1>6, <1>8
  <2> QED BY <1>1, <1>5, <2>1, Zenon
<1> QED BY <1>7, <1>8

(* ComputeLatency (disk.cc): a request made now ends at a time d that is   *)
(* within MaxLatency, and by then the sector has passed under the head.    *)
LEMMA RequestInTime ==
    ASSUME totalTicks \in Nat, lastSector \in DiskSector,
           bufferInit \in Nat, bufferInit % RotationTime = 0,
           NEW s \in DiskSector, NEW writing \in BOOLEAN, NEW d,
           d = totalTicks + ComputeLatency(s, writing)
    PROVE  /\ d \in Nat /\ totalTicks < d /\ d <= totalTicks + MaxLatency
           /\ IF InTrackBuffer(s, writing)
              THEN \E n \in bufferInit \div RotationTime .. d \div RotationTime :
                      /\ n % SectorsPerTrack = s % SectorsPerTrack
                      /\ (n + 1) * RotationTime <= d
              ELSE /\ d % RotationTime = 0
                   /\ (d \div RotationTime - 1) % SectorsPerTrack = s % SectorsPerTrack
                   /\ (d \div RotationTime - 1 + 1) * RotationTime <= d
<1>1. PICK R \in Nat \ {0}, S \in Nat \ {0}, M \in Nat :
         R = RotationTime /\ S = SectorsPerTrack /\ M = (NumTracks - 1) * SeekTime
  <2>1. (NumTracks - 1) * SeekTime \in Nat
    BY SynchDiskAssumption
  <2> QED BY <2>1, SynchDiskAssumption, Zenon
<1>2. PICK seek \in 0 .. M : seek = TimeToSeek(s)
  BY <1>1, SeekInRange, Zenon
<1>3. PICK rot \in 0 .. R - 1, k \in Nat : rot = Rotation(s) /\ TimeAfter(s) = R * k
  BY <1>1, AtBoundary, Zenon
<1>4. totalTicks + seek + rot = R * k
  BY <1>2, <1>3, Zenon DEF TimeAfter
<1>5. MaxLatency = M + (S + 1) * R
  BY <1>1, Zenon DEF MaxLatency
<1>6. s \in Nat
  BY SynchDiskAssumption DEF DiskSector
<1>7. CASE ~InTrackBuffer(s, writing)
  <2>1. TimeAfter(s) \div R = k
    <3>1. (R * k + 0) \div R = k /\ R * k + 0 = R * k
      BY DivModUnique
    <3> QED BY <1>3, <3>1
  <2>2. PICK f \in 0 .. S - 1 : f = ModuloDiff(s, k) /\ (k + f) % S = s % S
    <3>1. ModuloDiff(s, k) \in 0 .. S - 1 /\ (k + ModuloDiff(s, k)) % S = s % S
      BY <1>1, <1>6, NextAtSector, Zenon
    <3> QED BY <3>1, Zenon
  <2>3. d = R * k + f * R + R
    <3>1. ComputeLatency(s, writing) = seek + rot + f * R + R
      BY <1>1, <1>2, <1>3, <1>7, <2>1, <2>2, Zenon DEF ComputeLatency
    <3> QED BY <1>4, <3>1
  <2>4. d = R * (k + f + 1)
    BY <2>3
  <2>5. d \in Nat /\ totalTicks < d
    BY <1>4, <2>3
  <2>6. d <= totalTicks + MaxLatency
    <3>1. f * R + R <= S * R
      <4>1. PICK z \in Nat : S = f + 1 + z
        <5>1. S - (f + 1) \in Nat /\ S = f + 1 + (S - (f + 1))
          OBVIOUS
        <5> QED BY <5>1, Zenon
      <4>2. S * R = f * R + R + z * R /\ z * R >= 0
        BY <4>1
      <4> QED BY <4>2
    <3>2. (S + 1) * R = S * R + R
      OBVIOUS
    <3> QED BY <1>4, <1>5, <2>3, <3>1, <3>2
  <2>7. d \div R = k + f + 1 /\ d % R = 0
    <3> DEFINE q == k + f + 1
    <3>1. q \in Nat
      OBVIOUS
    <3> HIDE DEF q
    <3>2. (R * q + 0) \div R = q /\ (R * q + 0) % R = 0 /\ R * q + 0 = R * q
      BY <3>1, DivModUnique
    <3>3. d = R * q
      BY <2>4 DEF q
    <3> QED BY <3>2, <3>3 DEF q
  <2>8. d \div R - 1 = k + f /\ (d \div R - 1 + 1) * R = d
    BY <2>4, <2>7
  <2> QED BY <1>1, <1>7, <2>2, <2>5, <2>6, <2>7, <2>8
<1>8. CASE InTrackBuffer(s, writing)
  <2>1. PICK j \in Nat : j = bufferInit \div R /\ bufferInit = R * j
    <3>1. PICK q \in Nat, r \in 0 .. R - 1 :
             q = bufferInit \div R /\ r = bufferInit % R /\ bufferInit = R * q + r
      BY Split, ZenonT(30)
    <3>2. bufferInit = R * q
      BY <1>1, <3>1
    <3> QED BY <3>1, <3>2, Zenon
  <2>2. PICK f \in 0 .. S - 1 : f = ModuloDiff(s, j) /\ (j + f) % S = s % S
    <3>1. ModuloDiff(s, j) \in 0 .. S - 1 /\ (j + ModuloDiff(s, j)) % S = s % S
      BY <1>1, <1>6, NextAtSector, Zenon
    <3> QED BY <3>1, Zenon
  <2>3. seek = 0 /\ d = totalTicks + R
    BY <1>1, <1>2, <1>8, Zenon DEF InTrackBuffer, ComputeLatency
  <2>4. (R * k - R * j) \div R > f
    BY <1>1, <1>3, <1>8, <2>1, <2>2, Zenon DEF InTrackBuffer
  <2>5. k - j > f
    <3>1. CASE k >= j
      <4> DEFINE z == k - j
      <4>1. z \in Nat
        BY <3>1
      <4> HIDE DEF z
      <4>2. (R * z + 0) \div R = z /\ R * z + 0 = R * z
        BY <4>1, DivModUnique
      <4>3. R * k - R * j = R * z
        BY DEF z
      <4> QED BY <2>4, <4>2, <4>3 DEF z
    <3>2. CASE k < j
      <4>1. R * k - R * j < 0
        BY <3>2
      <4>2. (R * k - R * j) \div R < 0
        BY <4>1
      <4> QED BY <2>4, <4>2
    <3> QED BY <3>1, <3>2
  <2>6. (j + f + 1) * R <= R * k
    <3>1. PICK z \in Nat : k = j + f + 1 + z
      <4>1. k - (j + f + 1) \in Nat /\ k = j + f + 1 + (k - (j + f + 1))
        BY <2>5
      <4> QED BY <4>1, Zenon
    <3>2. R * k = (j + f + 1) * R + z * R /\ z * R >= 0
      BY <3>1
    <3> QED BY <3>2
  <2>7. (j + f + 1) * R <= d
    BY <1>4, <2>3, <2>6
  <2>8. d \in Nat /\ totalTicks < d /\ d <= totalTicks + MaxLatency
    <3>1. (S + 1) * R = S * R + R /\ S * R >= 0
      OBVIOUS
    <3> QED BY <1>5, <2>3, <3>1
  <2>9. j + f \in j .. d \div R
    <3>0. d \in Nat
      BY <2>8
    <3>1. PICK q \in Nat, r \in 0 .. R - 1 : q = d \div R /\ r = d % R /\ d = R * q + r
      BY <3>0, Split, ZenonT(30)
    <3>2. CASE q < j + f
      <4>1. PICK z \in Nat : j + f = q + 1 + z
        <5>1. (j + f) - (q + 1) \in Nat /\ j + f = q + 1 + ((j + f) - (q + 1))
          BY <3>2
        <5> QED BY <5>1, Zenon
      <4>2. (j + f + 1) * R = R * q + R + z * R + R /\ z * R >= 0
        BY <4>1
      <4>3. d = R * q + r
        BY <3>1, Zenon
      <4> QED BY <2>7, <4>2, <4>3
    <3> QED BY <3>1, <3>2
  <2> QED BY <1>1, <1>8, <2>1, <2>2, <2>7, <2>8, <2>9
<1> QED BY <1>7, <1>8, Zenon

(* The track buffer starts at a sector boundary, also of a disk at rest.   *)
TimeInv ==
    /\ bufferInit \in Nat /\ bufferInit % RotationTime = 0
    /\ SectorHasPassed

(* A request: RequestInTime, with the state that it leaves.                *)
LEMMA RequestTime ==
    ASSUME DiskInv, TimeInv, NEW t \in Client, DiskRequest(t)
    PROVE  TimeInv'
<1>1. PICK s \in DiskSector, writing \in BOOLEAN :
         /\ due' = totalTicks + ComputeLatency(s, writing)
         /\ fast' = InTrackBuffer(s, writing)
         /\ bufferInit' = (IF TimeToSeek(s) # 0 THEN TimeAfter(s) ELSE bufferInit)
         /\ lastSector' = s
  BY Zenon DEF DiskRequest, UpdateLast
<1>2. totalTicks' = totalTicks
  BY Zenon DEF DiskRequest
<1>3. /\ totalTicks \in Nat /\ lastSector \in DiskSector
      /\ bufferInit \in Nat /\ bufferInit % RotationTime = 0
  BY Zenon DEF DiskInv, TimeInv
<1>4. bufferInit' \in Nat /\ bufferInit' % RotationTime = 0
  <2>1. PICK k \in Nat : TimeAfter(s) = RotationTime * k
    BY <1>3, AtBoundary, Zenon
  <2>2. RotationTime * k \in Nat /\ RotationTime * k + 0 = RotationTime * k
        /\ (RotationTime * k + 0) % RotationTime = 0
    BY SynchDiskAssumption, DivModUnique
  <2> QED BY <1>1, <1>3, <2>1, <2>2
<1>5. PICK d : d = due'
  BY Zenon
<1>6. /\ d \in Nat /\ totalTicks < d /\ d <= totalTicks + MaxLatency
      /\ IF InTrackBuffer(s, writing)
         THEN \E n \in bufferInit \div RotationTime .. d \div RotationTime :
                 /\ n % SectorsPerTrack = s % SectorsPerTrack
                 /\ (n + 1) * RotationTime <= d
         ELSE /\ d % RotationTime = 0
              /\ (d \div RotationTime - 1) % SectorsPerTrack = s % SectorsPerTrack
              /\ (d \div RotationTime - 1 + 1) * RotationTime <= d
  BY <1>1, <1>3, <1>5, RequestInTime, Zenon
<1>7. InTrackBuffer(s, writing) => bufferInit' = bufferInit
  BY <1>1, Zenon DEF InTrackBuffer
<1>8. MaxLatency' = MaxLatency
  BY Zenon DEF MaxLatency
<1>9. SectorHasPassed'
  BY <1>1, <1>2, <1>4, <1>5, <1>6, <1>7, <1>8, Zenon DEF SectorHasPassed
<1> QED BY <1>4, <1>9, Zenon DEF TimeInv

(* Every step keeps TimeInv.                                               *)
LEMMA TimeStep == DiskInv /\ TimeInv /\ [DriverNext]_driverVars => TimeInv'
<1> SUFFICES ASSUME DiskInv, TimeInv, [DriverNext]_driverVars PROVE TimeInv'
  BY Zenon
<1>1. ASSUME UNCHANGED <<totalTicks, diskVars>> PROVE TimeInv'
  BY <1>1, Zenon DEF diskVars, TimeInv, SectorHasPassed, MaxLatency
<1>2. ASSUME UNCHANGED <<lastSector, bufferInit, active, due, fast>>,
             totalTicks' \in Nat, totalTicks <= totalTicks', due > 0 => totalTicks' < due
      PROVE  TimeInv'
  <2>1. active => totalTicks' < due' /\ due' <= totalTicks' + MaxLatency'
    <3>0. SUFFICES ASSUME active PROVE totalTicks' < due' /\ due' <= totalTicks' + MaxLatency'
      BY Zenon
    <3>1. due > 0 /\ totalTicks \in Nat /\ due \in Nat
      BY <3>0, Zenon DEF DiskInv
    <3>2. due <= totalTicks + MaxLatency
      BY <3>0, Zenon DEF TimeInv, SectorHasPassed
    <3>3. PICK L \in Int : L = MaxLatency
      <4>1. MaxLatency \in Int
        BY SynchDiskAssumption DEF MaxLatency
      <4> QED BY <4>1, Zenon
    <3>4. MaxLatency' = L
      BY <3>3, Zenon DEF MaxLatency
    <3>5. /\ totalTicks' \in Nat /\ totalTicks <= totalTicks'
          /\ totalTicks' < due /\ due' = due
      BY <1>2, <3>1, Zenon
    <3>6. due <= totalTicks + L
      BY <3>2, <3>3, Zenon
    <3>7. due <= totalTicks' + L
      <4>1. \A a, b, c, m \in Int : a <= b /\ c <= a + m => c <= b + m
        OBVIOUS
      <4>2. totalTicks \in Int /\ totalTicks' \in Int /\ due \in Int
        BY <3>1, <3>5
      <4> QED BY <3>3, <3>5, <3>6, <4>1, <4>2, Zenon
    <3> QED BY <3>4, <3>5, <3>7, Zenon
  <2> QED BY <1>2, <2>1, Zenon DEF TimeInv, SectorHasPassed
<1>3. CASE ClockTick \/ ClockIdle
  <2>1. CASE due > 0 /\ CallBack
    BY <2>1, Zenon DEF CallBack, TimeInv, SectorHasPassed
  <2> QED BY <1>2, <1>3, <2>1, ClockCases, Zenon
<1>4. ASSUME NEW t \in Client, Call(t) \/ AcquireDisk(t) \/ P(t) \/ ReleaseDisk(t)
      PROVE  TimeInv'
  BY <1>1, <1>4, Zenon DEF Call, AcquireDisk, P, ReleaseDisk
<1>5. ASSUME NEW t \in Client, DiskRequest(t) PROVE TimeInv'
  BY <1>5, RequestTime, Zenon
<1>6. CASE UNCHANGED driverVars
  BY <1>1, <1>6, Zenon DEF driverVars
<1> QED BY <1>3, <1>4, <1>5, <1>6, Zenon DEF DriverNext, Step

(* SectorHasPassed holds at the start.                                     *)
LEMMA TimeInit == DriverInit => TimeInv
<1> SUFFICES ASSUME DriverInit PROVE TimeInv
  BY Zenon
<1>1. bufferInit = 0 /\ ~active
  BY Zenon DEF DriverInit
<1>2. bufferInit \in Nat /\ bufferInit % RotationTime = 0
  BY <1>1, SynchDiskAssumption
<1> QED BY <1>1, <1>2, Zenon DEF TimeInv, SectorHasPassed

(* SectorHasPassed: a request ends when the disk has rotated past its      *)
(* sector, or the sector is in the track buffer (Disk::ComputeLatency), on *)
(* a disk of any geometry and whatever requests came before.               *)
THEOREM RequestsEndInTime == DriverSpec => []SectorHasPassed
<1>1. TimeInv => SectorHasPassed
  BY Zenon DEF TimeInv
<1> QED BY <1>1, TimeInit, TimeStep, DiskInvariance, PTL DEF DriverSpec
-----------------------------------------------------------------------------
-----------------------------------------------------------------------------
(* A set that nothing is in.                                               *)
LEMMA CountNone ==
    ASSUME SetFacts, NEW A, \A p \in A : FALSE
    PROVE  Cardinality(A) = 0
<1>1. A = {}
  BY Zenon
<1> QED BY <1>1, Zenon DEF SetFacts, SmallFact

(* A set that one thing is in.                                             *)
LEMMA CountOne ==
    ASSUME SetFacts, NEW A, NEW p \in A, \A q \in A : q = p
    PROVE  Cardinality(A) = 1
<1>1. A = {p}
  BY Zenon
<1> QED BY <1>1, Zenon DEF SetFacts, SmallFact

(* The invariant is OneRequest.                                            *)
LEMMA DiskInvOneRequest ==
    ASSUME SetFacts, DiskInv
    PROVE  OneRequest
<1> DEFINE A == DriverAt({"Request", "P", "Release"})
<1>1. lock + Cardinality(A) = 1
  <2>1. CASE lock = 0
    <3>1. PICK t \in Client : HasDisk(t)
      BY <2>1, Zenon DEF DiskInv
    <3>2. t \in A /\ \A u \in A : u = t
      BY <3>1, Zenon DEF DiskInv, DriverAt, HasDisk
    <3>3. Cardinality(A) = 1
      BY <3>2, CountOne, Zenon
    <3> QED BY <2>1, <3>3
  <2>2. CASE lock = 1
    <3>1. \A u \in A : FALSE
      BY <2>2 DEF DiskInv, DriverAt, HasDisk
    <3>2. Cardinality(A) = 0
      BY <3>1, CountNone, Zenon
    <3> QED BY <2>2, <3>2
  <2> QED BY <2>1, <2>2 DEF DiskInv
<1>2. DriverAt({"Request"}) # {} => ~active /\ due = 0 /\ semaphore = 0
  BY DEF DiskInv, DriverAt
<1>3. active <=> due > 0
  BY Zenon DEF DiskInv
<1>4. DriverAt({"P"}) # {} <=> active \/ semaphore > 0
  <2>1. DriverAt({"P"}) # {} <=> \E t \in Client : driverPc[t] = "P"
    BY Zenon DEF DriverAt
  <2>2. semaphore > 0 <=> semaphore = 1
    BY DEF DiskInv
  <2> QED BY <1>3, <2>1, <2>2, Zenon DEF DiskInv
<1> QED BY <1>1, <1>2, <1>3, <1>4, Zenon DEF OneRequest
-----------------------------------------------------------------------------
(* The entries of the list of pending interrupts.                          *)
PendingEntry == [dev : AllDevices, in : Int]

(* The elements of a list of entries.                                      *)
LEMMA EntriesTyped ==
    ASSUME NEW s \in Seq(PendingEntry)
    PROVE  /\ Len(s) \in Nat /\ DOMAIN s = 1 .. Len(s)
           /\ \A i \in 1 .. Len(s) :
                 s[i] \in PendingEntry /\ s[i].in \in Int /\ s[i].dev \in AllDevices
<1>1. Len(s) \in Nat /\ DOMAIN s = 1 .. Len(s) /\ \A i \in 1 .. Len(s) : s[i] \in PendingEntry
  OBVIOUS
<1> QED BY <1>1 DEF PendingEntry

(* A function on 1 .. n is a sequence of length n.                         *)
LEMMA SeqOfLength ==
    ASSUME NEW S, NEW n \in Nat, NEW s \in [1 .. n -> S]
    PROVE  s \in Seq(S) /\ Len(s) = n
OBVIOUS

(* The two parts of a sequence.                                            *)
LEMMA SeqParts ==
    ASSUME NEW S, NEW s \in Seq(S), NEW k \in 0 .. Len(s)
    PROVE  /\ SubSeq(s, 1, k) \in Seq(S) /\ Len(SubSeq(s, 1, k)) = k
           /\ \A i \in 1 .. k : SubSeq(s, 1, k)[i] = s[i]
           /\ SubSeq(s, k + 1, Len(s)) \in Seq(S) /\ Len(SubSeq(s, k + 1, Len(s))) = Len(s) - k
           /\ \A i \in 1 .. Len(s) - k : SubSeq(s, k + 1, Len(s))[i] = s[k + i]
OBVIOUS

(* Two sequences, one behind the other.                                    *)
LEMMA SeqConcat ==
    ASSUME NEW S, NEW c \in Seq(S), NEW b \in Seq(S)
    PROVE  /\ c \o b \in Seq(S) /\ Len(c \o b) = Len(c) + Len(b)
           /\ \A i \in 1 .. Len(c) : (c \o b)[i] = c[i]
           /\ \A i \in 1 .. Len(b) : (c \o b)[Len(c) + i] = b[i]
<1>1. c \o b \in Seq(S)
  OBVIOUS
<1>2. Len(c \o b) = Len(c) + Len(b)
  OBVIOUS
<1>3. \A i \in 1 .. Len(c) : (c \o b)[i] = c[i]
  OBVIOUS
<1>4. \A i \in 1 .. Len(b) : (c \o b)[Len(c) + i] = b[i]
  OBVIOUS
<1> QED BY <1>1, <1>2, <1>3, <1>4, Zenon

(* In a sorted list, the entries that are not later than a time are the    *)
(* first ones: Insert finds its place by counting them.                    *)
LEMMA EarlierFirst ==
    ASSUME SetFacts, NEW s \in Seq(PendingEntry), InOrder(s), NEW n \in Int,
           NEW E, E = {i \in 1 .. Len(s) : s[i].in <= n}
    PROVE  Cardinality(E) \in 0 .. Len(s) /\ E = 1 .. Cardinality(E)
<1>1. Len(s) \in Nat /\ \A i \in 1 .. Len(s) : s[i].in \in Int
  BY EntriesTyped
<1>2. IsFiniteSet(1 .. Len(s)) /\ Cardinality(1 .. Len(s)) = Len(s)
  BY <1>1, Zenon DEF SetFacts, IntervalFact
<1>3. IsFiniteSet(E) /\ Cardinality(E) <= Len(s) /\ Cardinality(E) \in Nat
  <2>1. E \subseteq 1 .. Len(s)
    BY Zenon
  <2> QED BY <1>2, <2>1, Zenon DEF SetFacts, SubsetFact, CardinalityFact
<1>4. Cardinality(E) \in 0 .. Len(s)
  BY <1>1, <1>3
<1>5. ASSUME NEW i \in E PROVE i <= Cardinality(E)
  <2>1. i \in 1 .. Len(s) /\ s[i].in <= n
    OBVIOUS
  <2>2. 1 .. i \subseteq E
    BY <1>1, <2>1 DEF InOrder
  <2>3. i \in Nat
    BY <1>1, <2>1
  <2>4. Cardinality(1 .. i) = i
    BY <2>3, Zenon DEF SetFacts, IntervalFact
  <2>5. Cardinality(1 .. i) <= Cardinality(E)
    BY <1>3, <2>2, Zenon DEF SetFacts, SubsetFact
  <2> QED BY <2>4, <2>5, Zenon
<1>6. E \subseteq 1 .. Cardinality(E)
  BY <1>1, <1>4, <1>5
<1>7. /\ IsFiniteSet(1 .. Cardinality(E))
      /\ Cardinality(1 .. Cardinality(E)) = Cardinality(E)
  BY <1>3, Zenon DEF SetFacts, IntervalFact
<1> QED BY <1>4, <1>6, <1>7, Zenon DEF SetFacts, SubsetFact

(* t is s with e put in behind the first k.                                *)
Placed(s, e, t, k) ==
    /\ \A i \in 1 .. k : t[i] = s[i] /\ s[i].in <= e.in
    /\ t[k + 1] = e
    /\ \A i \in k + 1 .. Len(s) : t[i + 1] = s[i] /\ s[i].in > e.in

(* Insert puts an entry behind all that are not later and before the rest. *)
LEMMA InsertAt ==
    ASSUME SetFacts, NEW s \in Seq(PendingEntry), InOrder(s), NEW e \in PendingEntry,
           NEW t, t = Insert(s, e)
    PROVE  /\ t \in Seq(PendingEntry) /\ Len(t) = Len(s) + 1
           /\ \E k \in 0 .. Len(s) : Placed(s, e, t, k)
<1> DEFINE E == {i \in 1 .. Len(s) : s[i].in <= e.in}
           k == Cardinality(E)
           a == SubSeq(s, 1, k)
           b == SubSeq(s, k + 1, Len(s))
<1>1. Len(s) \in Nat /\ \A i \in 1 .. Len(s) : s[i] \in PendingEntry /\ s[i].in \in Int
  BY EntriesTyped
<1>2. k \in 0 .. Len(s) /\ E = 1 .. k
  <2>1. e.in \in Int
    BY DEF PendingEntry
  <2> QED BY <2>1, EarlierFirst, SMTT(30)
<1>3. \A i \in 1 .. Len(s) : i <= k <=> s[i].in <= e.in
  BY <1>1, <1>2
<1>4. t = a \o <<e>> \o b
  BY Zenon DEF Insert
<1> HIDE DEF E, k
<1>5. /\ a \in Seq(PendingEntry) /\ Len(a) = k
      /\ \A i \in 1 .. k : a[i] = s[i]
  BY <1>1, <1>2, SeqParts
<1>6. /\ b \in Seq(PendingEntry) /\ Len(b) = Len(s) - k
      /\ \A i \in 1 .. Len(s) - k : b[i] = s[k + i]
  BY <1>1, <1>2, SeqParts
<1> HIDE DEF a, b
<1>7. /\ a \o <<e>> \in Seq(PendingEntry) /\ Len(a \o <<e>>) = k + 1
      /\ \A i \in 1 .. k : (a \o <<e>>)[i] = a[i]
      /\ (a \o <<e>>)[k + 1] = e
  BY <1>2, <1>5
<1> DEFINE c == a \o <<e>>
<1> HIDE DEF c
<1>8. /\ c \o b \in Seq(PendingEntry) /\ Len(c \o b) = Len(s) + 1
      /\ \A i \in 1 .. k + 1 : (c \o b)[i] = c[i]
      /\ \A i \in k + 1 .. Len(s) : (c \o b)[i + 1] = b[i - k]
  <2>1. c \in Seq(PendingEntry) /\ Len(c) = k + 1
    BY <1>7 DEF c
  <2>2. /\ c \o b \in Seq(PendingEntry) /\ Len(c \o b) = Len(c) + Len(b)
        /\ \A i \in 1 .. Len(c) : (c \o b)[i] = c[i]
        /\ \A i \in 1 .. Len(b) : (c \o b)[Len(c) + i] = b[i]
    <3>1. b \in Seq(PendingEntry)
      BY <1>6
    <3>2. c \in Seq(PendingEntry)
      BY <2>1, Zenon
    <3> QED BY <3>1, <3>2, SeqConcat
  <2>3. ASSUME NEW i \in k + 1 .. Len(s) PROVE (c \o b)[i + 1] = b[i - k]
    <3>1. i - k \in 1 .. Len(b) /\ Len(c) + (i - k) = i + 1
      BY <1>1, <1>2, <1>6, <2>1
    <3> QED BY <2>2, <3>1
  <2> QED BY <1>1, <1>2, <1>6, <2>1, <2>2, <2>3, SMTT(30)
<1>9. t = c \o b
  BY <1>4 DEF c
<1>10. \A i \in 1 .. k : t[i] = s[i] /\ s[i].in <= e.in
  BY <1>1, <1>2, <1>3, <1>5, <1>7, <1>8, <1>9 DEF c
<1>11. t[k + 1] = e
  BY <1>2, <1>7, <1>8, <1>9 DEF c
<1>12. ASSUME NEW i \in k + 1 .. Len(s) PROVE t[i + 1] = s[i] /\ s[i].in > e.in
  <2>1. i \in 1 .. Len(s) /\ ~(i <= k) /\ i - k \in 1 .. Len(s) - k /\ k + (i - k) = i
    BY <1>1, <1>2
  <2>2. t[i + 1] = s[i]
    BY <1>6, <1>8, <1>9, <2>1, SMTT(30)
  <2>3. e.in \in Int /\ s[i].in \in Int
    BY <1>1, <2>1 DEF PendingEntry
  <2> QED BY <1>3, <2>1, <2>2, <2>3
<1>13. t \in Seq(PendingEntry) /\ Len(t) = Len(s) + 1
  BY <1>8, <1>9
<1>14. Placed(s, e, t, k)
  BY <1>10, <1>11, <1>12 DEF Placed
<1> QED BY <1>2, <1>13, <1>14

(* What the properties of lists say of a list with one more entry.         *)
LEMMA InsertKeeps ==
    ASSUME SetFacts, NEW s \in Seq(PendingEntry), InOrder(s), Once(s),
           NEW e \in PendingEntry, ~Holds(s, e.dev),
           NEW t, t = Insert(s, e)
    PROVE  /\ t \in Seq(PendingEntry) /\ Len(t) = Len(s) + 1
           /\ InOrder(t) /\ Once(t)
           /\ Holds(t, e.dev) /\ \A d : Holds(s, d) => Holds(t, d)
           /\ \A i \in 1 .. Len(t) : t[i] = e \/ \E j \in 1 .. Len(s) : t[i] = s[j]
<1>0. PICK k \in 0 .. Len(s) : Placed(s, e, t, k)
  BY InsertAt
<1>1. /\ \A i \in 1 .. k : t[i] = s[i] /\ s[i].in <= e.in
      /\ t[k + 1] = e
      /\ \A i \in k + 1 .. Len(s) : t[i + 1] = s[i] /\ s[i].in > e.in
  BY <1>0 DEF Placed
<1>2. /\ t \in Seq(PendingEntry) /\ Len(t) = Len(s) + 1
      /\ Len(s) \in Nat /\ k \in 0 .. Len(s) /\ e.in \in Int
      /\ \A i \in 1 .. Len(s) : s[i].in \in Int
  BY <1>0, InsertAt, EntriesTyped, ZenonT(30) DEF PendingEntry
<1>3. ASSUME NEW i \in 1 .. Len(t), i <= k
      PROVE  i \in 1 .. k /\ i \in 1 .. Len(s) /\ t[i] = s[i]
  <2>1. i \in 1 .. k /\ i \in 1 .. Len(s)
    BY <1>2, <1>3
  <2> QED BY <1>1, <2>1
<1>4. ASSUME NEW i \in 1 .. Len(t), i > k + 1
      PROVE  i - 1 \in k + 1 .. Len(s) /\ i - 1 \in 1 .. Len(s) /\ t[i] = s[i - 1]
  <2>1. i - 1 \in k + 1 .. Len(s) /\ i - 1 \in 1 .. Len(s) /\ (i - 1) + 1 = i
    BY <1>2, <1>4
  <2> QED BY <1>1, <2>1
<1>5. InOrder(t)
  <2> SUFFICES ASSUME NEW i \in 1 .. Len(t), NEW j \in 1 .. Len(t), i < j
               PROVE  t[i].in <= t[j].in
    BY DEF InOrder
  <2>1. CASE i <= k /\ j <= k
    BY <1>2, <1>3, <1>4, <2>1, Zenon DEF InOrder
  <2>2. CASE i <= k /\ j = k + 1
    BY <1>1, <1>3, <1>4, <2>2
  <2>3. CASE i <= k /\ j > k + 1
    <3>1. t[i] = s[i] /\ i \in 1 .. k /\ t[j] = s[j - 1] /\ j - 1 \in k + 1 .. Len(s)
      BY <1>3, <1>4, <2>3, ZenonT(30)
    <3>2. i \in 1 .. Len(s) /\ j - 1 \in 1 .. Len(s) /\ i < j - 1
      BY <1>2, <2>3, <3>1, SMTT(30)
    <3> QED BY <3>1, <3>2, ZenonT(30) DEF InOrder
  <2>4. CASE i = k + 1 /\ j > k + 1
    <3>1. t[j] = s[j - 1] /\ j - 1 \in k + 1 .. Len(s) /\ t[i] = e
      BY <1>1, <1>2, <1>4, <2>4
    <3>2. s[j - 1].in > e.in /\ s[j - 1].in \in Int
      BY <1>1, <1>2, <3>1
    <3> QED BY <1>2, <3>1, <3>2, SMTT(30)
  <2>5. CASE i > k + 1 /\ j > k + 1
    <3>1. /\ t[i] = s[i - 1] /\ i - 1 \in 1 .. Len(s)
          /\ t[j] = s[j - 1] /\ j - 1 \in 1 .. Len(s)
      BY <1>4, <2>5, ZenonT(30)
    <3>2. i - 1 < j - 1
      BY SMTT(30)
    <3> QED BY <3>1, <3>2, ZenonT(30) DEF InOrder
  <2> QED BY <1>2, <2>1, <2>2, <2>3, <2>4, <2>5
<1>6. ASSUME NEW i \in 1 .. Len(t) PROVE t[i] = e \/ \E j \in 1 .. Len(s) : t[i] = s[j]
  <2>1. i <= k \/ i = k + 1 \/ i > k + 1
    BY <1>2
  <2> QED BY <1>1, <1>3, <1>4, <2>1
<1>7. Once(t)
  <2> SUFFICES ASSUME NEW i \in 1 .. Len(t), NEW j \in 1 .. Len(t), t[i].dev = t[j].dev
               PROVE  i = j
    BY DEF Once
  <2>1. \A m \in 1 .. Len(s) : s[m].dev # e.dev
    BY DEF Holds
  <2>2. ASSUME NEW n \in 1 .. Len(t), n # k + 1 PROVE t[n].dev # e.dev
    <3>1. n <= k \/ n > k + 1
      BY <1>2, <2>2, SMTT(30)
    <3> QED BY <1>3, <1>4, <2>1, <3>1, ZenonT(30)
  <2>3. i = k + 1 <=> j = k + 1
    BY <1>1, <2>2, SMTT(30)
  <2>4. CASE i # k + 1 /\ j # k + 1
    <3>1. PICK m \in 1 .. Len(s) : t[i] = s[m] /\ m = (IF i <= k THEN i ELSE i - 1)
      BY <1>2, <1>3, <1>4, <2>4, SMTT(30)
    <3>2. PICK n \in 1 .. Len(s) : t[j] = s[n] /\ n = (IF j <= k THEN j ELSE j - 1)
      BY <1>2, <1>3, <1>4, <2>4, SMTT(30)
    <3>3. m = n
      BY <3>1, <3>2, SMTT(30) DEF Once
    <3> QED BY <1>2, <2>4, <3>1, <3>2, <3>3, SMTT(30)
  <2> QED BY <2>3, <2>4
<1>8. Holds(t, e.dev)
  <2>1. k + 1 \in 1 .. Len(t)
    BY <1>2
  <2> QED BY <1>1, <2>1 DEF Holds
<1>9. ASSUME NEW d, Holds(s, d) PROVE Holds(t, d)
  <2>1. PICK i \in 1 .. Len(s) : s[i].dev = d
    BY <1>9 DEF Holds
  <2>2. CASE i <= k
    <3>1. i \in 1 .. k /\ i \in 1 .. Len(t)
      BY <1>2, <2>2, SMTT(30)
    <3> QED BY <1>1, <2>1, <3>1 DEF Holds
  <2>3. CASE i > k
    <3>1. i \in k + 1 .. Len(s) /\ i + 1 \in 1 .. Len(t)
      BY <1>2, <2>3
    <3> QED BY <1>1, <2>1, <3>1 DEF Holds
  <2> QED BY <1>2, <2>2, <2>3
<1> QED BY <1>2, <1>5, <1>6, <1>7, <1>8, <1>9

(* No entry is further ahead than its device asks, or long overdue.        *)
Near(s) == \A i \in 1 .. Len(s) : \E n \in Delay[s[i].dev] : s[i].in \in -SystemTick .. n

(* The list of pending interrupts.                                         *)
GoodList(s) ==
    s \in Seq(PendingEntry) /\ InOrder(s) /\ Once(s) /\ Near(s)

(* When the first entry is not due, none is.                               *)
LEMMA NoneIsDue ==
    ASSUME NEW s, GoodList(s), ~Due(s)
    PROVE  \A i \in 1 .. Len(s) : s[i].in > 0
<1> SUFFICES ASSUME NEW i \in 1 .. Len(s) PROVE s[i].in > 0
  OBVIOUS
<1>1. Len(s) \in Nat /\ s[i].in \in Int /\ 1 \in 1 .. Len(s) /\ s[1].in \in Int
  BY EntriesTyped DEF GoodList
<1>2. s # << >> /\ Head(s) = s[1]
  BY <1>1 DEF GoodList
<1>3. s[1].in > 0
  BY <1>1, <1>2 DEF Due
<1>4. i = 1 \/ s[1].in <= s[i].in
  BY <1>1 DEF GoodList, InOrder
<1> QED BY <1>1, <1>3, <1>4

(* The clock moves on by no more than a tick, or to the first entry.       *)
LEMMA AdvanceKeeps ==
    ASSUME NEW s, GoodList(s), NEW n \in Nat,
           \A i \in 1 .. Len(s) : s[i].in - n >= -SystemTick,
           NEW t, t = [i \in 1 .. Len(s) |-> [s[i] EXCEPT !.in = @ - n]]
    PROVE  GoodList(t) /\ \A d : Holds(s, d) <=> Holds(t, d)
<1>1. /\ Len(s) \in Nat
      /\ \A i \in 1 .. Len(s) : s[i] \in PendingEntry /\ s[i].in \in Int /\ s[i].dev \in AllDevices
  BY EntriesTyped DEF GoodList
<1>2. ASSUME NEW i \in 1 .. Len(s)
      PROVE  t[i] \in PendingEntry /\ t[i].dev = s[i].dev /\ t[i].in = s[i].in - n
  BY <1>1, SMTT(30) DEF PendingEntry
<1>3. t \in Seq(PendingEntry) /\ Len(t) = Len(s)
  <2>1. t \in [1 .. Len(s) -> PendingEntry]
    BY <1>2
  <2>2. Len(s) \in Nat
    BY <1>1
  <2>3. \A S : \A m \in Nat : \A f \in [1 .. m -> S] : f \in Seq(S) /\ Len(f) = m
    BY SeqOfLength
  <2> QED BY <2>1, <2>2, <2>3
<1>4. InOrder(t)
  <2> SUFFICES ASSUME NEW i \in 1 .. Len(s), NEW j \in 1 .. Len(s), i < j
               PROVE  t[i].in <= t[j].in
    BY <1>3, Zenon DEF InOrder
  <2>1. s[i].in <= s[j].in /\ s[i].in \in Int /\ s[j].in \in Int
    BY <1>1 DEF GoodList, InOrder
  <2>2. t[i].in = s[i].in - n /\ t[j].in = s[j].in - n
    BY <1>2, Zenon
  <2> QED BY <2>1, <2>2
<1>5. Once(t)
  BY <1>2, <1>3 DEF GoodList, Once
<1>6. Near(t)
  <2> SUFFICES ASSUME NEW i \in 1 .. Len(s)
               PROVE  \E m \in Delay[t[i].dev] : t[i].in \in -SystemTick .. m
    BY <1>3, Zenon DEF Near
  <2>1. PICK m \in Delay[s[i].dev] : s[i].in \in -SystemTick .. m
    BY DEF GoodList, Near
  <2>2. m \in Nat /\ SystemTick \in Nat
    BY <1>1, <2>1, InterruptAssumption
  <2>3. s[i].in - n \in -SystemTick .. m
    BY <1>1, <2>1, <2>2
  <2> QED BY <1>2, <2>1, <2>3, SMTT(30)
<1>7. \A d : Holds(s, d) <=> Holds(t, d)
  BY <1>2, <1>3 DEF Holds
<1> QED BY <1>3, <1>4, <1>5, <1>6, <1>7 DEF GoodList

(* CheckIfDue takes the first entry out.                                   *)
LEMMA TailKeeps ==
    ASSUME NEW s, GoodList(s), s # << >>
    PROVE  /\ GoodList(Tail(s)) /\ ~Holds(Tail(s), Head(s).dev)
           /\ Head(s).dev \in AllDevices
           /\ Holds(s, Head(s).dev)
           /\ \A d : Holds(s, d) /\ d # Head(s).dev <=> Holds(Tail(s), d)
<1> DEFINE t == Tail(s)
<1>1. /\ Len(s) \in Nat /\ Len(s) >= 1 /\ t \in Seq(PendingEntry) /\ Len(t) = Len(s) - 1
      /\ Head(s) = s[1] /\ \A i \in 1 .. Len(t) : t[i] = s[i + 1]
  BY EntriesTyped DEF GoodList
<1>2. \A i \in 1 .. Len(t) : i + 1 \in 1 .. Len(s) /\ i + 1 # 1
  BY <1>1, SMTT(30)
<1> HIDE DEF t
<1>3. InOrder(t)
  <2> SUFFICES ASSUME NEW i \in 1 .. Len(t), NEW j \in 1 .. Len(t), i < j
               PROVE  t[i].in <= t[j].in
    BY DEF InOrder
  <2>1. i + 1 < j + 1
    OBVIOUS
  <2> QED BY <1>1, <1>2, <2>1, Zenon DEF GoodList, InOrder
<1>4. Once(t)
  <2> SUFFICES ASSUME NEW i \in 1 .. Len(t), NEW j \in 1 .. Len(t), t[i].dev = t[j].dev
               PROVE  i = j
    BY DEF Once
  <2>1. i + 1 = j + 1
    BY <1>1, <1>2, SMTT(30) DEF GoodList, Once
  <2> QED BY <2>1
<1>5. Near(t)
  BY <1>1, <1>2, Zenon DEF GoodList, Near
<1>6. 1 \in 1 .. Len(s) /\ s[1].dev \in AllDevices
  BY <1>1, EntriesTyped DEF GoodList
<1>7. ~Holds(t, s[1].dev)
  BY <1>1, <1>2, <1>6 DEF GoodList, Once, Holds
<1>8. ASSUME NEW d, Holds(s, d), d # s[1].dev PROVE Holds(t, d)
  <2>1. PICK i \in 1 .. Len(s) : s[i].dev = d /\ i # 1
    BY <1>8 DEF Holds
  <2>2. i - 1 \in 1 .. Len(t) /\ (i - 1) + 1 = i
    BY <1>1, <2>1
  <2> QED BY <1>1, <2>1, <2>2, Zenon DEF Holds
<1>9. ASSUME NEW d, Holds(t, d) PROVE Holds(s, d) /\ d # s[1].dev
  <2>1. PICK i \in 1 .. Len(t) : t[i].dev = d
    BY <1>9 DEF Holds
  <2> QED BY <1>1, <1>2, <1>7, <1>9, <2>1, Zenon DEF Holds
<1>10. Holds(s, s[1].dev)
  BY <1>6, Zenon DEF Holds
<1> QED BY <1>1, <1>3, <1>4, <1>5, <1>6, <1>7, <1>8, <1>9, <1>10, SMTT(30) DEF GoodList, t

(* Schedule adds an entry for a device that has none.                      *)
LEMMA ScheduleKeeps ==
    ASSUME SetFacts, NEW s, GoodList(s),
           NEW d \in AllDevices, ~Holds(s, d), NEW n \in Delay[d],
           NEW t, t = Schedule(s, d, n)
    PROVE  /\ GoodList(t) /\ Holds(t, d)
           /\ \A c : Holds(s, c) \/ c = d <=> Holds(t, c)
           /\ (\A i \in 1 .. Len(s) : s[i].in > 0) => \A i \in 1 .. Len(t) : t[i].in > 0
<1> DEFINE e == Entry(d, n)
<1>1. n \in Nat /\ n > 0 /\ SystemTick \in Nat
  BY InterruptAssumption
<1>2. e \in PendingEntry /\ e.dev = d /\ e.in = n
  BY <1>1 DEF PendingEntry, Entry
<1>3. t = Insert(s, e)
  BY SMTT(30) DEF Schedule
<1> HIDE DEF e
<1>4. /\ t \in Seq(PendingEntry) /\ InOrder(t) /\ Once(t)
      /\ Holds(t, e.dev) /\ \A c : Holds(s, c) => Holds(t, c)
      /\ \A i \in 1 .. Len(t) : t[i] = e \/ \E j \in 1 .. Len(s) : t[i] = s[j]
  BY <1>2, <1>3, InsertKeeps DEF GoodList
<1>5. Near(t)
  <2>1. e.in \in -SystemTick .. n
    BY <1>1, <1>2, SMTT(30)
  <2> QED BY <1>2, <1>4, <2>1, ZenonT(30) DEF GoodList, Near
<1>6. (\A i \in 1 .. Len(s) : s[i].in > 0) => \A i \in 1 .. Len(t) : t[i].in > 0
  BY <1>1, <1>2, <1>4
<1>7. ASSUME NEW c, Holds(t, c) PROVE Holds(s, c) \/ c = d
  <2>1. PICK i \in 1 .. Len(t) : t[i].dev = c
    BY <1>7 DEF Holds
  <2> QED BY <1>2, <1>4, <2>1, Zenon DEF Holds
<1> QED BY <1>2, <1>4, <1>5, <1>6, <1>7 DEF GoodList

(* The part of the inductive invariant about the list.                     *)
ListInv ==
    /\ GoodList(pending)
    /\ phase \in {"run", "idle"} => \A i \in 1 .. Len(pending) : pending[i].in > 0
    /\ \A d \in Polling \cup {Timer} : Holds(pending, d)
    /\ incoming \subseteq Keyboard
    /\ \A d \in Keyboard : Holds(pending, d) => d \notin incoming

(* More places than devices: two places have the same device.              *)
LEMMA Pigeons ==
    ASSUME SetFacts,
           NEW n \in Nat, NEW T, IsFiniteSet(T), Cardinality(T) < n, NEW f \in [1 .. n -> T]
    PROVE  \E i, j \in 1 .. n : i # j /\ f[i] = f[j]
<1>1. IsFiniteSet(1 .. n) /\ Cardinality(1 .. n) = n
  BY Zenon DEF SetFacts, IntervalFact
<1>2. Cardinality(T) < Cardinality(1 .. n)
  BY <1>1, Zenon
<1>3. \A g \in [1 .. n -> T] : \E i, j \in 1 .. n : i # j /\ g[i] = g[j]
  BY <1>1, <1>2, Zenon DEF SetFacts, PigeonFact
<1> QED BY <1>3, Zenon

(* At the start every device that schedules itself has its entry: there    *)
(* are as many entries as such devices, and no two of one device.          *)
LEMMA InitList ==
    ASSUME SetFacts, Init
    PROVE  ListInv
<1> DEFINE Polled == Inputs \cup {Timer}
           n == Cardinality(Inputs) + 1
<1>1. /\ IsFiniteSet(Device) /\ Timer \notin Device /\ Inputs \subseteq Device
      /\ \A d \in AllDevices : Delay[d] \subseteq Nat \ {0}
      /\ SystemTick \in Nat
  BY InterruptAssumption DEF Inputs
<1>2. IsFiniteSet(Inputs) /\ Cardinality(Inputs) \in Nat
  BY <1>1, Zenon DEF SetFacts, SubsetFact, CardinalityFact
<1>3. IsFiniteSet(Polled) /\ Cardinality(Polled) = n /\ n \in Nat
  <2>1. Timer \notin Inputs
    BY <1>1, Zenon
  <2>2. IsFiniteSet(Polled) /\ Cardinality(Polled) = n
    BY <1>2, <2>1, Zenon DEF SetFacts, AddFact
  <2> QED BY <1>2, <2>2
<1>5. /\ pending \in [1 .. n -> Entries]
      /\ InOrder(pending) /\ Once(pending)
      /\ \A i \in 1 .. n : pending[i].dev \in Polled /\ pending[i].in \in Delay[pending[i].dev]
  BY DEF Init
<1> HIDE DEF n
<1>6. ASSUME NEW i \in 1 .. n
      PROVE  /\ pending[i] \in PendingEntry
             /\ pending[i].in \in Nat /\ pending[i].in > 0
  <2>1. PICK d \in AllDevices, m \in UNION {Delay[c] : c \in AllDevices} : pending[i] = Entry(d, m)
    BY <1>5 DEF Entries
  <2>2. pending[i].in = m /\ pending[i].dev = d
    BY <2>1 DEF Entry
  <2>3. m \in Nat \ {0}
    BY <1>1, <1>5, <2>2
  <2> QED BY <2>1, <2>2, <2>3 DEF PendingEntry, Entry
<1>7. pending \in Seq(PendingEntry) /\ Len(pending) = n
  <2>1. pending \in [1 .. n -> PendingEntry]
    BY <1>5, <1>6
  <2> QED BY <1>3, <2>1, SeqOfLength
<1>8. Near(pending)
  <2> SUFFICES ASSUME NEW i \in 1 .. n
               PROVE  \E m \in Delay[pending[i].dev] : pending[i].in \in -SystemTick .. m
    BY <1>7, Zenon DEF Near
  <2>1. pending[i].in \in Delay[pending[i].dev]
    BY <1>5, Zenon
  <2>2. pending[i].in \in Nat /\ SystemTick \in Nat
    BY <1>1, <1>6, Zenon
  <2>3. pending[i].in \in -SystemTick .. pending[i].in
    BY <2>2
  <2> QED BY <2>1, <2>3, Zenon
<1>9. ASSUME NEW d \in Polled PROVE Holds(pending, d)
  <2> SUFFICES ASSUME ~Holds(pending, d) PROVE FALSE
    OBVIOUS
  <2> DEFINE f == [i \in 1 .. n |-> pending[i].dev]
             T == Polled \ {d}
  <2>1. f \in [1 .. n -> T]
    BY <1>5, <1>7 DEF Holds
  <2>2. IsFiniteSet(T) /\ Cardinality(T) = n - 1
    BY <1>3, Zenon DEF SetFacts, RemoveFact
  <2>3. Cardinality(T) < n
    BY <1>3, <2>2
  <2> HIDE DEF f, T
  <2>4. n \in Nat /\ IsFiniteSet(T)
    BY <1>3, <2>2
  <2>5. \E i, j \in 1 .. n : i # j /\ f[i] = f[j]
    BY <2>1, <2>3, <2>4, Pigeons
  <2> QED BY <1>5, <1>7, <2>5 DEF f, Once
<1>10. incoming = {} /\ \A d \in Polling \cup {Timer} : d \in Polled
  BY SMTT(30) DEF Init, Inputs
<1> QED BY <1>5, <1>6, <1>7, <1>8, <1>9, <1>10 DEF ListInv, GoodList

(* A tick: nothing was due, and when nothing is due now the thread goes on.*)
LEMMA TickList ==
    ASSUME ListInv, phase = "run",
           NEW n \in {UserTick, SystemTick}, pending' = Advance(n),
           phase' = "fire" \/ (phase' = "run" /\ ~Due(pending')), UNCHANGED incoming
    PROVE  ListInv'
<1>1. UserTick \in Nat /\ SystemTick \in Nat /\ UserTick <= SystemTick
  BY InterruptAssumption, SMTT(30)
<1>2. GoodList(pending) /\ \A i \in 1 .. Len(pending) : pending[i].in > 0 /\ pending[i].in \in Int
  BY EntriesTyped DEF ListInv, GoodList
<1>3. \A i \in 1 .. Len(pending) : pending[i].in - n >= -SystemTick
  BY <1>1, <1>2
<1>4. pending' = [i \in 1 .. Len(pending) |-> [pending[i] EXCEPT !.in = @ - n]]
  BY DEF Advance
<1>5. n \in Nat
  BY <1>1
<1>6. GoodList(pending') /\ \A d : Holds(pending, d) <=> Holds(pending', d)
  BY <1>2, <1>3, <1>4, <1>5, AdvanceKeeps, SMTT(30)
<1>7. ~Due(pending') => \A i \in 1 .. Len(pending') : pending'[i].in > 0
  BY <1>6, NoneIsDue
<1> QED BY <1>6, <1>7 DEF ListInv, GoodList, Near

(* The clock of an idle machine jumps to the first entry: there is one.    *)
LEMMA IdleList ==
    ASSUME ListInv, Idle
    PROVE  ListInv'
<1>1. GoodList(pending) /\ SystemTick \in Nat
  BY InterruptAssumption DEF ListInv
<1>2. Holds(pending, Timer)
  BY DEF ListInv
<1>3. /\ Len(pending) \in Nat /\ 1 \in 1 .. Len(pending)
      /\ \A i \in 1 .. Len(pending) : pending[i].in \in Int
  BY <1>1, <1>2, EntriesTyped DEF GoodList, Holds
<1>4. Head(pending) = pending[1]
  BY <1>1, <1>3 DEF GoodList
<1>5. phase' = "idlefire" /\ UNCHANGED incoming
  BY DEF Idle
<1>6. CASE pending' = pending
  BY <1>5, <1>6, SMTT(30) DEF ListInv, GoodList, Near
<1>7. CASE pending[1].in > 0 /\ pending' = Advance(pending[1].in)
  <2> DEFINE n == pending[1].in
  <2>1. n \in Nat
    BY <1>3, <1>7
  <2>2. ASSUME NEW i \in 1 .. Len(pending) PROVE pending[i].in - n >= -SystemTick
    <3>1. i = 1 \/ pending[1].in <= pending[i].in
      BY <1>1, <1>3 DEF GoodList, InOrder
    <3> QED BY <1>1, <1>3, <3>1, SMTT(30)
  <2>3. pending' = [i \in 1 .. Len(pending) |-> [pending[i] EXCEPT !.in = @ - n]]
    BY <1>7 DEF Advance
  <2> HIDE DEF n
  <2>4. GoodList(pending') /\ \A d : Holds(pending, d) <=> Holds(pending', d)
    BY <1>1, <2>1, <2>2, <2>3, AdvanceKeeps, SMTT(30)
  <2> QED BY <1>5, <2>4 DEF ListInv, GoodList, Near
<1>8. pending' = IF Head(pending).in > 0 THEN Advance(Head(pending).in) ELSE pending
  BY SMTT(30) DEF Idle
<1> QED BY <1>4, <1>6, <1>7, <1>8

(* A driver asks for an interrupt of a device that waits for none.         *)
LEMMA RequestList ==
    ASSUME SetFacts, ListInv, NEW d \in Device, Request(d)
    PROVE  ListInv'
<1>1. /\ ~Holds(pending, d) /\ phase = "run" /\ phase' = phase
      /\ d \in AllDevices /\ GoodList(pending) /\ incoming' = incoming \ {d}
      /\ \A i \in 1 .. Len(pending) : pending[i].in > 0
  BY DEF Request, AllDevices, ListInv
<1>2. PICK n \in Delay[d] : pending' = Schedule(pending, d, n)
  BY SMTT(30) DEF Request
<1>3. /\ GoodList(pending') /\ \A c : Holds(pending, c) \/ c = d <=> Holds(pending', c)
      /\ \A i \in 1 .. Len(pending') : pending'[i].in > 0
  BY <1>1, <1>2, ScheduleKeeps
<1> QED BY <1>1, <1>3, Zenon DEF ListInv, GoodList, Near

(* CheckIfDue takes the first entry out; its handler may put in the next   *)
(* one for the same device.                                                *)
LEMMA FireList ==
    ASSUME SetFacts, ListInv, Fire
    PROVE  ListInv'
<1> DEFINE d == Head(pending).dev
           s == Tail(pending)
<1>1. /\ phase \in {"fire", "idlefire"} /\ phase' = phase
      /\ pending # << >> /\ GoodList(pending)
  BY ZenonT(30) DEF Fire, Due, ListInv
<1>2. /\ GoodList(s) /\ ~Holds(s, d) /\ d \in AllDevices
      /\ Holds(pending, d) /\ \A c : Holds(pending, c) /\ c # d <=> Holds(s, c)
  BY <1>1, TailKeeps
<1>3. \/ UNCHANGED incoming /\ \E n \in Delay[d] : pending' = Schedule(s, d, n)
      \/ /\ Ends(d) /\ pending' = s
         /\ incoming' \in {incoming, incoming \cup (Keyboard \cap {d})}
  BY Zenon DEF Fire
<1> HIDE DEF d, s
<1>4. CASE UNCHANGED incoming /\ \E n \in Delay[d] : pending' = Schedule(s, d, n)
  <2>1. PICK n \in Delay[d] : pending' = Schedule(s, d, n)
    BY <1>4
  <2>2. GoodList(Schedule(s, d, n)) /\ \A c : Holds(s, c) \/ c = d <=> Holds(Schedule(s, d, n), c)
    BY <1>2, ScheduleKeeps, Zenon
  <2>3. GoodList(pending') /\ \A c : Holds(pending, c) <=> Holds(pending', c)
    BY <1>2, <2>1, <2>2, Zenon
  <2>4. phase' \notin {"run", "idle"}
    BY <1>1, SMTT(30)
  <2> QED BY <1>4, <2>3, <2>4, Zenon DEF ListInv, GoodList, Near
<1>5. CASE /\ Ends(d) /\ pending' = s
           /\ incoming' \in {incoming, incoming \cup (Keyboard \cap {d})}
  <2>1. d \notin Polling \cup {Timer}
    BY <1>5 DEF Ends
  <2>2. \A c : Holds(pending', c) <=> Holds(pending, c) /\ c # d
    BY <1>2, <1>5, Zenon
  <2>3. incoming' \subseteq Keyboard /\ \A c \in incoming' : c = d \/ c \in incoming
    BY <1>5 DEF ListInv
  <2>4. GoodList(pending')
    BY <1>2, <1>5, Zenon
  <2> QED BY <1>1, <2>1, <2>2, <2>3, <2>4, Zenon DEF ListInv, GoodList, Near
<1> QED BY <1>3, <1>4, <1>5, ZenonT(30)

(* The list stays as it is.  A thread, or Idle, goes on when nothing is    *)
(* due.                                                                    *)
LEMMA SameList ==
    ASSUME ListInv, UNCHANGED <<pending, incoming>>,
           phase' \in {"run", "idle"} => phase \in {"run", "idle"} \/ ~Due(pending)
    PROVE  ListInv'
<1>1. GoodList(pending)
  BY DEF ListInv
<1>2. ~Due(pending) => \A i \in 1 .. Len(pending) : pending[i].in > 0
  BY <1>1, NoneIsDue
<1> QED BY <1>2, SMTT(30) DEF ListInv, GoodList, Near

(* OneTick.                                                                *)
LEMMA OneTickList ==
    ASSUME ListInv, phase = "run", OneTick
    PROVE  ListInv'
<1> DEFINE n == IF status = "system" THEN SystemTick ELSE UserTick
<1>1. /\ pending' = Advance(n)
      /\ phase' = "fire" \/ (phase' = phase /\ ~Due(pending'))
      /\ UNCHANGED incoming
  <2>1. pending' = Advance(n) /\ UNCHANGED incoming
    BY Zenon DEF OneTick
  <2>2. phase' = "fire" \/ (phase' = phase /\ ~Due(Advance(n)))
    BY DEF OneTick
  <2> QED BY <2>1, <2>2, Zenon
<1>2. n \in {UserTick, SystemTick}
  OBVIOUS
<1> HIDE DEF n
<1> QED BY <1>1, <1>2, TickList

(* Every step keeps the list in order.                                     *)
LEMMA NextList ==
    ASSUME SetFacts, ListInv, [Next]_vars
    PROVE  ListInv'
<1>1. CASE Enable \/ Instruction
  BY <1>1, OneTickList DEF Enable, Instruction
<1>2. CASE ReturnToUser
  <2>1. /\ phase = "run" /\ pending' = Advance(UserTick) /\ UNCHANGED incoming
        /\ phase' = "fire" \/ (phase' = "run" /\ ~Due(pending'))
    <3>1. phase = "run" /\ pending' = Advance(UserTick) /\ UNCHANGED incoming
      BY <1>2, Zenon DEF ReturnToUser
    <3>2. phase' = IF Due(Advance(UserTick)) THEN "fire" ELSE "run"
      BY <1>2, Zenon DEF ReturnToUser
    <3> QED BY <3>1, <3>2
  <2> QED BY <2>1, TickList
<1>3. CASE \E d \in Device : Request(d)
  BY <1>3, RequestList
<1>4. CASE Fire
  BY <1>4, FireList
<1>5. CASE Idle
  BY <1>5, IdleList
<1>6. CASE Disable \/ RaiseException \/ Sleep \/ Dispatch
  BY <1>6, SameList DEF Disable, RaiseException, Sleep, Dispatch
<1>7. CASE FireEnds \/ YieldNow \/ IdleEnds
  BY <1>7, SameList DEF FireEnds, YieldNow, IdleEnds
<1>8. CASE UNCHANGED vars
  BY <1>8, SameList, SMTT(30) DEF vars
<1> QED BY <1>1, <1>2, <1>3, <1>4, <1>5, <1>6, <1>7, <1>8, SMTT(30) DEF Next

(* The part of the inductive invariant about the status.  A thread that    *)
(* does not run executes system code, unless a time slice took the         *)
(* processor from it; and such a thread still has interrupts off.          *)
ModeInv ==
    /\ level \in {"on", "off"} /\ status \in {"system", "user", "idle"}
    /\ phase \in {"run", "fire", "idlefire", "idle"}
    /\ current \in Thread /\ mode \in [Thread -> {"user", "system"}]
    /\ asleep \subseteq Thread /\ inYield \subseteq Thread
    /\ phase \in {"run", "fire"} =>
          status = IF current \in inYield THEN "system" ELSE mode[current]
    /\ phase = "idlefire" => status = "idle"
    /\ phase = "idle" => status = "system"
    /\ phase \in {"idle", "idlefire"} => mode[current] = "system"
    /\ phase # "run" => level = "off"
    /\ level = "on" => current \notin inYield
    /\ \A t \in Thread \ inYield : t # current => mode[t] = "system"

(* The flags of class Interrupt.                                           *)
FlagInv ==
    /\ inHandler \in BOOLEAN /\ yieldOnReturn \in BOOLEAN
    /\ inHandler <=> phase \in {"fire", "idlefire"}
    /\ yieldOnReturn => phase = "fire"

(* OneTick returns.                                                        *)
LEMMA TickedMode ==
    ASSUME ModeInv, phase \in {"run", "fire"}, Ticked, phase' = "run"
    PROVE  ModeInv'
<1> QED BY DEF ModeInv, Ticked

(* A tick.                                                                 *)
LEMMA OneTickMode ==
    ASSUME ModeInv, phase = "run", OneTick
    PROVE  ModeInv'
<1>1. CASE level' = "off" /\ phase' = "fire" /\ UNCHANGED <<status, threadVars>>
  BY <1>1 DEF ModeInv, threadVars
<1>2. CASE Ticked /\ phase' = phase
  BY <1>2, TickedMode
<1>3. (level' = "off" /\ phase' = "fire" /\ UNCHANGED <<status, threadVars>>)
      \/ (Ticked /\ phase' = phase)
  BY Zenon DEF OneTick
<1> QED BY <1>1, <1>2, <1>3

(* Every step keeps the status right.                                      *)
LEMMA NextMode ==
    ASSUME ModeInv, [Next]_vars
    PROVE  ModeInv'
<1>1. CASE Enable \/ Instruction
  BY <1>1, OneTickMode DEF Enable, Instruction
<1>2. CASE ReturnToUser
  <2>1. /\ phase = "run" /\ level = "on"
        /\ mode' = [mode EXCEPT ![current] = "user"] /\ status' = "user"
        /\ UNCHANGED <<current, asleep, inYield>>
    BY <1>2 DEF ReturnToUser
  <2>2. (level' = "off" /\ phase' = "fire") \/ (level' = "on" /\ phase' = "run")
    BY <1>2, SMTT(30) DEF ReturnToUser
  <2> QED BY <2>1, <2>2 DEF ModeInv
<1>3. CASE RaiseException
  BY <1>3 DEF ModeInv, RaiseException
<1>4. CASE Disable
  BY <1>4 DEF ModeInv, Disable, threadVars
<1>5. CASE \E d \in Device : Request(d)
  <2>1. UNCHANGED <<level, status, phase, threadVars>>
    BY <1>5 DEF Request
  <2> QED BY <2>1, SMTT(30) DEF ModeInv, threadVars
<1>6. CASE Fire
  <2>1. UNCHANGED <<level, status, phase, current, mode, inYield>> /\ asleep' \subseteq asleep
    BY <1>6, Zenon DEF Fire
  <2> QED BY <2>1, SMTT(30) DEF ModeInv
<1>7. CASE FireEnds
  <2>1. phase = "fire" /\ phase' = "run" /\ Ticked
    BY <1>7 DEF FireEnds
  <2> QED BY <2>1, TickedMode
<1>8. CASE YieldNow
  <2>1. /\ phase = "fire" /\ phase' = "run" /\ status' = "system"
        /\ inYield' = inYield \cup {current}
        /\ current' = current \/ current' \in Thread
        /\ UNCHANGED <<level, mode, asleep>>
    BY <1>8, SMTT(30) DEF YieldNow, Ready
  <2> QED BY <2>1 DEF ModeInv
<1>9. CASE Sleep
  BY <1>9, SMTT(30) DEF ModeInv, Sleep, Ready
<1>10. CASE Idle
  BY <1>10, SMTT(30) DEF ModeInv, Idle, threadVars
<1>11. CASE IdleEnds
  BY <1>11, SMTT(30) DEF ModeInv, IdleEnds, threadVars
<1>12. CASE Dispatch
  BY <1>12, SMTT(30) DEF ModeInv, Dispatch
<1>13. CASE UNCHANGED vars
  BY <1>13 DEF ModeInv, vars
<1> QED BY <1>1, <1>2, <1>3, <1>4, <1>5, <1>6, <1>7, <1>8, <1>9,
           <1>10, <1>11, <1>12, <1>13, SMTT(30)
        DEF Next

(* Every step keeps the flags: only the timer of a busy machine asks for   *)
(* a time slice, and OneTick clears the flag before it yields.             *)
LEMMA NextFlags ==
    ASSUME ModeInv, FlagInv, [Next]_vars
    PROVE  FlagInv'
<1>0. /\ inHandler \in BOOLEAN /\ yieldOnReturn \in BOOLEAN
      /\ inHandler <=> phase \in {"fire", "idlefire"}
      /\ yieldOnReturn => phase = "fire"
      /\ phase = "idlefire" => status = "idle"
  BY Zenon DEF FlagInv, ModeInv
<1>1. ASSUME inHandler' \in BOOLEAN, inHandler' <=> phase' \in {"fire", "idlefire"},
             yieldOnReturn' = yieldOnReturn, phase = "fire" => phase' = "fire"
      PROVE  FlagInv'
  BY <1>0, <1>1, Zenon DEF FlagInv
<1>2. ASSUME phase # "fire", phase' \in {"run", "idle"}, inHandler' = FALSE, UNCHANGED yieldOnReturn
      PROVE  FlagInv'
  BY <1>0, <1>1, <1>2, Zenon
<1>3. ASSUME phase # "fire", phase' \in {"fire", "idlefire"}, inHandler' = TRUE, UNCHANGED yieldOnReturn
      PROVE  FlagInv'
  BY <1>0, <1>1, <1>3, Zenon
<1>4. ASSUME UNCHANGED <<inHandler, yieldOnReturn, phase>>
      PROVE  FlagInv'
  BY <1>0, <1>4, Zenon DEF FlagInv
<1>5. ASSUME phase \in {"run", "idle"}, phase' \in {"run", "idle"}, UNCHANGED <<inHandler, yieldOnReturn>>
      PROVE  FlagInv'
  <2>1. inHandler' = FALSE /\ phase # "fire"
    BY <1>0, <1>5, Zenon
  <2> QED BY <1>2, <1>5, <2>1, Zenon
<1>6. ASSUME phase = "run", OneTick PROVE FlagInv'
  <2>1. \/ inHandler' = TRUE /\ phase' = "fire" /\ UNCHANGED yieldOnReturn
        \/ UNCHANGED <<inHandler, yieldOnReturn, phase>>
    BY <1>6, Zenon DEF OneTick
  <2>2. phase # "fire"
    BY <1>6
  <2> QED BY <1>3, <1>4, <2>1, <2>2, Zenon
<1>7. CASE Enable \/ Instruction
  BY <1>6, <1>7, Zenon DEF Enable, Instruction
<1>8. CASE ReturnToUser
  <2>1. /\ phase = "run" /\ UNCHANGED yieldOnReturn
        /\ inHandler' = Due(Advance(UserTick))
        /\ phase' = IF Due(Advance(UserTick)) THEN "fire" ELSE "run"
    BY <1>8, Zenon DEF ReturnToUser
  <2>2. phase # "fire" /\ Due(Advance(UserTick)) \in BOOLEAN
    BY <2>1, Zenon DEF Due
  <2>3. CASE inHandler' = TRUE /\ phase' = "fire"
    BY <1>3, <2>1, <2>2, <2>3, ZenonT(30)
  <2>4. CASE inHandler' = FALSE /\ phase' = "run"
    BY <1>2, <2>1, <2>2, <2>4, Zenon
  <2> QED BY <2>1, <2>2, <2>3, <2>4, Zenon
<1>9. CASE RaiseException \/ Disable \/ \E d \in Device : Request(d)
  BY <1>4, <1>9, Zenon DEF RaiseException, Disable, Request
<1>10. CASE Fire
  <2>1. /\ phase \in {"fire", "idlefire"} /\ UNCHANGED <<inHandler, phase>>
        /\ (yieldOnReturn' = (yieldOnReturn \/ status # "idle")) \/ UNCHANGED yieldOnReturn
    BY <1>10, Zenon DEF Fire, Alarm
  <2>2. CASE UNCHANGED yieldOnReturn
    BY <1>4, <2>1, <2>2, Zenon
  <2>3. CASE yieldOnReturn' = (yieldOnReturn \/ status # "idle")
    <3>1. yieldOnReturn' \in BOOLEAN /\ (yieldOnReturn' => phase' = "fire")
      BY <1>0, <2>1, <2>3, Zenon
    <3> QED BY <1>0, <2>1, <3>1, Zenon DEF FlagInv
  <2> QED BY <2>1, <2>2, <2>3, Zenon
<1>11. CASE FireEnds \/ YieldNow
  <2>1. /\ inHandler' = FALSE /\ phase' = "run"
        /\ yieldOnReturn' = FALSE \/ (yieldOnReturn' = yieldOnReturn /\ ~yieldOnReturn)
    BY <1>11, Zenon DEF FireEnds, YieldNow
  <2>2. phase' \notin {"fire", "idlefire"}
    BY <2>1
  <2>3. yieldOnReturn' = FALSE
    BY <1>0, <2>1, Zenon
  <2> QED BY <2>1, <2>2, <2>3, Zenon DEF FlagInv
<1>12. CASE Sleep \/ Dispatch
  BY <1>5, <1>12, Zenon DEF Sleep, Dispatch
<1>13. CASE Idle
  BY <1>3, <1>13, Zenon DEF Idle
<1>14. CASE IdleEnds
  BY <1>2, <1>14, Zenon DEF IdleEnds
<1>15. CASE UNCHANGED vars
  BY <1>4, <1>15, Zenon DEF vars
<1> QED BY <1>7, <1>8, <1>9, <1>10, <1>11, <1>12, <1>13, <1>14, <1>15, ZenonT(30) DEF Next

(* At the start.                                                           *)
LEMMA InitClock ==
    ASSUME Init
    PROVE  ModeInv /\ FlagInv
<1>1. ModeInv
  BY DEF Init, ModeInv
<1>2. inHandler = FALSE /\ yieldOnReturn = FALSE /\ phase = "run"
  BY Zenon DEF Init
<1>3. phase \notin {"fire", "idlefire"}
  BY <1>2
<1>4. FlagInv
  BY <1>2, <1>3, Zenon DEF FlagInv
<1> QED BY <1>1, <1>4, Zenon

(* The status and the flags are right for the code that runs.              *)
LEMMA StatusRight ==
    ASSUME ModeInv, FlagInv
    PROVE  StatusMatchesCode
<1>1. /\ phase = "run" => status = IF current \in inYield THEN "system" ELSE mode[current]
      /\ status = "idle" <=> phase = "idlefire"
      /\ phase \in {"fire", "idlefire", "idle"} => level = "off"
  BY DEF ModeInv
<1> QED BY <1>1, Zenon DEF FlagInv, StatusMatchesCode

(* The list is right.                                                      *)
LEMMA ListRight ==
    ASSUME ModeInv, FlagInv, ListInv
    PROVE  NothingOverdue
<1>1. \A i \in 1 .. Len(pending) :
         /\ pending[i].dev \in AllDevices
         /\ \E n \in Delay[pending[i].dev] : pending[i].in \in -SystemTick .. n
  BY EntriesTyped DEF ListInv, GoodList, Near
<1>2. TypeOK
  BY <1>1, Zenon DEF ModeInv, FlagInv, ListInv, TypeOK
<1> QED BY <1>2, ZenonT(30) DEF ListInv, GoodList, NothingOverdue

(* Interrupt::OneTick, CheckIfDue, Idle and YieldOnReturn with Thread's    *)
(* Yield and Sleep: the machine status that all threads share always is    *)
(* that of the code which runs, for any number of threads and devices.     *)
THEOREM StatusIsRight ==
    Spec => []StatusMatchesCode
<1>1. Init => ModeInv /\ FlagInv
  BY InitClock
<1>2. ModeInv /\ FlagInv /\ [Next]_vars => (ModeInv /\ FlagInv)'
  BY NextMode, NextFlags, Zenon
<1>3. ModeInv /\ FlagInv => StatusMatchesCode
  BY StatusRight, Zenon
<1> QED BY <1>1, <1>2, <1>3, PTL DEF Spec
-----------------------------------------------------------------------------
(* The facts assumed so far, from the libraries.                           *)
INSTANCE FiniteSetTheorems
INSTANCE WellFoundedInduction

(* All of them hold.                                                       *)
LEMMA SetFactsHold == SetFacts
<1>1. CardinalityFact
  BY FS_CardinalityType, Zenon DEF CardinalityFact
<1>2. SmallFact
  BY FS_EmptySet, FS_Singleton, Zenon DEF SmallFact
<1>3. IntervalFact
  <2> SUFFICES ASSUME NEW n \in Nat PROVE IsFiniteSet(1 .. n) /\ Cardinality(1 .. n) = n
    BY Zenon DEF IntervalFact
  <2>1. 1 \in Int /\ n \in Int /\ (IF 1 > n THEN 0 ELSE n - 1 + 1) = n
    OBVIOUS
  <2> QED BY <2>1, FS_Interval, Zenon
<1>4. SubsetFact
  <2> SUFFICES ASSUME NEW S, NEW T \in SUBSET S, IsFiniteSet(S)
               PROVE  /\ IsFiniteSet(T) /\ Cardinality(T) <= Cardinality(S)
                      /\ Cardinality(T) = Cardinality(S) => T = S
    BY Zenon DEF SubsetFact
  <2>1. Cardinality(S) = Cardinality(T) => S = T
    BY FS_Subset, Zenon
  <2> QED BY <2>1, FS_Subset, Zenon
<1>5. AddFact
  BY FS_AddElement, Zenon DEF AddFact
<1>6. RemoveFact
  BY FS_RemoveElement, Zenon DEF RemoveFact
<1>7. PigeonFact
  BY FS_PigeonHole, Zenon DEF PigeonFact
<1>8. LeastFact
  <2> SUFFICES ASSUME NEW T, T \subseteq Nat, T # {}
               PROVE  \E m \in T : \A k \in T : m <= k
    BY Zenon DEF LeastFact
  <2> DEFINE R == OpToRel(<, Nat)
  <2>1. IsWellFoundedOn(R, Nat)
    BY NatLessThanWellFounded, Zenon
  <2> HIDE DEF R
  <2>2. PICK x \in T : \A y \in T : ~(<<y, x>> \in R)
    BY <2>1, WFMin, Zenon
  <2>3. \A y \in Nat : y < x => <<y, x>> \in R
    <3>1. R = {ss \in Nat \X Nat : ss[1] < ss[2]}
      BY DEF R, OpToRel
    <3> QED BY <3>1
  <2>4. \A k \in T : x <= k
    <3>1. \A k \in T : k \in Nat /\ x \in Nat /\ ~(k < x)
      BY <2>2, <2>3, Zenon
    <3> QED BY <3>1
  <2> QED BY <2>4, Zenon
<1> QED BY <1>1, <1>2, <1>3, <1>4, <1>5, <1>6, <1>7, <1>8, Zenon DEF SetFacts

(* ASSERT(!active) of Disk::ReadRequest and WriteRequest holds for a disk  *)
(* of any geometry and any number of threads: a thread that makes its      *)
(* request finds the disk idle, and none returns before its own interrupt. *)
THEOREM DiskServesOneAtATime ==
    DriverSpec => []OneRequest
<1>1. DiskInv => OneRequest
  BY SetFactsHold, DiskInvOneRequest, Zenon
<1> QED BY <1>1, DiskInvariance, PTL

(* Interrupt::Schedule, CheckIfDue and Idle: the list of pending           *)
(* interrupts is sorted, has at most one entry of a device and always one  *)
(* of the timer and of the network's input, none is overdue when a thread  *)
(* runs, and no keyboard reads on while a character of it waits.           *)
THEOREM NoInterruptIsLate ==
    Spec => []NothingOverdue
<1>1. Init => ModeInv /\ FlagInv /\ ListInv
  BY SetFactsHold, InitClock, InitList, Zenon
<1>2. ModeInv /\ FlagInv /\ ListInv /\ [Next]_vars => (ModeInv /\ FlagInv /\ ListInv)'
  BY SetFactsHold, NextMode, NextFlags, NextList, Zenon
<1>3. ModeInv /\ FlagInv /\ ListInv => NothingOverdue
  BY ListRight, Zenon
<1> QED BY <1>1, <1>2, <1>3, PTL DEF Spec
=============================================================================
