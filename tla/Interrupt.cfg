\* Three threads, the timer, the inputs of network and console, and a device
\* that answers.
SPECIFICATION FairSpec
CONSTANTS
    Thread = {t1, t2, t3}
    Device = {"network", "keyboard", "disk"}
    Polling = {"network"}
    Keyboard = {"keyboard"}
    Delay <- Delays
    UserTick = 1
    SystemTick = 2
INVARIANTS
    NothingOverdue
    StatusMatchesCode
PROPERTIES
    InterruptsCome
