\* Two processes that read and print; the input may end, and then readers
\* wait for ever.
SPECIFICATION ConsoleFairSpec
CONSTANTS
    Proc = {p1, p2}
    Key = {"c", "nl"}
    MaxKeys = 3
    MaxText = 2
INVARIANTS
    OneAtATime
PROPERTIES
    ReadsInOrder
    CallsGoOn
CHECK_DEADLOCK FALSE
