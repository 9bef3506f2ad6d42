\* Three pages; programs that do not all fit together, and one that never fits.
SPECIFICATION Spec
CONSTANTS
    p1 = p1
    p2 = p2
    p3 = p3
    p4 = p4
    Proc = {p1, p2, p3, p4}
    NumPhysPages = 3
    BitmapSize = 3
    PageSize = 2
    Noff <- NoffFiles
INVARIANTS
    FramesExclusive
    PrivateMemory
CHECK_DEADLOCK FALSE
