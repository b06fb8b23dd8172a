\* Nobody stops the daemon; the socket is a file; workers crash twice.
CONSTANTS
    Procs = {p1, p2}
    Inodes = {i1, i2, i3}
    None = None
    MaxRetries = 2
    MaxCrashes = 2
    Abstract = FALSE
    Signals = FALSE
    Faults = FALSE
SPECIFICATION FairSpec
PROPERTY DaemonServes
\* All launches may have ended.
CHECK_DEADLOCK FALSE
