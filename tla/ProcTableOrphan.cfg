\* Programs join their own children, each at most once, and may exit before
\* they have joined them.
SPECIFICATION Spec
CONSTANTS
    MaxProcess = 3
    MaxObj = 4
    Code = {0}
    Discipline = {"once"}
    Junk = Junk
    NULL = NULL
INVARIANT
    NoCrash
CHECK_DEADLOCK FALSE
