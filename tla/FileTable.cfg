\* Two programs, careful or not, and two entries besides the console's; a
\* failed ASSERT stops the machine.
SPECIFICATION PartSpec
CONSTANTS
    Proc = {p1, p2}
    Name = {"f", "stdout"}
    MaxFile = 4
    MaxLen = 2
    SeekPos <- Anywhere
    NULL = NULL
INVARIANTS
    IdsAreStable
    OpenFilesExist
    TextsAreKept
CHECK_DEADLOCK FALSE
