\* Two machines, one with a second client, on a network that loses nothing or
\* may lose any packet; after a loss both may wait for ever.
SPECIFICATION TestSpec
CONSTANTS
    Host <- TwoHosts
    Thread = {t1, t2}
    main = t1
    Busy = {0}
    Box = {0, 1, 2}
    MaxMail = 3
    NoMail = NoMail
    FarHost <- Other
INVARIANTS
    MailArrives
    AckMeansReceived
PROPERTIES
    TestEnds
CHECK_DEADLOCK FALSE
