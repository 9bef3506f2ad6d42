SPECIFICATION FairSpec
CONSTANTS
    Thread = {main, t1, t2, t3}
    Main = main
    lock = lock
    dev = dev
    Sem = {lock, dev}
    DeviceSem = {dev}
    InitValue <- MCInitValue
    MaxValue = 2
    NULL = NULL
INVARIANTS
    OnePlace
    CarcassSafe
    NoLostWakeup
PROPERTIES
    ImplementsSemaphores
    Progress
CHECK_DEADLOCK FALSE
