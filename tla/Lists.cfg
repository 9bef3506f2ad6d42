\* Four threads and two items: a producer, and consumers that are woken,
\* overtaken and sent to sleep again; or a list of four items; or a table of
\* six.  All threads may wait for ever.
SPECIFICATION PartSpec
CONSTANTS
    Thread = {t1, t2, t3, t4}
    MaxItems = 2
    NULL = NULL
    Nil = Nil
    Item <- Items
    Key <- Halves
INVARIANTS
    MutualExclusion
    NoLostSignal
PROPERTIES
    ImplementsChannel
    ItemsAreTaken
    ListsAreSequences
    TableIsMap
CHECK_DEADLOCK FALSE
