\* A disk with room for some of the files, a directory that gets full, with
\* entries before, across and behind its sectors' boundary, and a size for
\* which a header has no room; a file of five bytes; two threads on a disk of
\* two tracks of three sectors, until the bound of the clock.
SPECIFICATION PartSpec
CONSTANTS
    NumSectors = 11
    NumDirEntries = 3
    NumDirect = 2
    Across = 1
    MaxStops = 2
    FileName <- Names
    Cut <- Prefix
    Size = {0, 2, 3}
    SectorSize = 2
    Length = 5
    Byte = {0, 1}
    Sizes = {0, 1, 4}
    Positions <- Places
    Client = {"t1", "t2"}
    SectorsPerTrack = 3
    NumTracks = 2
    SeekTime = 2
    RotationTime = 3
    Ticks = {1, 2}
    MaxTicks = 24
INVARIANTS
    MapIsExact
    DamageIsLimited
    OneRequest
    SectorHasPassed
PROPERTIES
    
    FilesAreBytes
CHECK_DEADLOCK FALSE
