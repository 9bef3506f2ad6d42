\* Four PCB objects in three entries, so that entries are reused and Exec fails
\* when the table is full.  Programs are orderly or join and exit as they like;
\* then a parent may exit before its child, join twice or join strangers, and
\* everybody may sleep for ever.
SPECIFICATION FairSpec
CONSTANTS
    MaxProcess = 3
    MaxObj = 4
    Code = {0}
    Discipline = {"orderly", "any"}
    Junk = Junk
    NULL = NULL
INVARIANTS
    NoStalePointer
PROPERTIES
    ImplementsProcesses
    JoinsEnd
CHECK_DEADLOCK FALSE
