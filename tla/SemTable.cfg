\* Three names for a table of two entries.
SPECIFICATION SemSpec
CONSTANTS
    User = {p1, p2, p3}
    SemName = {ma, mb, mc}
    MaxSemaphore = 2
    Initial <- Legal
    MaxSignal = 2
    NoSem = NoSem
INVARIANTS
    OneEntryPerName
    UnitsConserved
    WaitsAreCovered
CHECK_DEADLOCK FALSE
