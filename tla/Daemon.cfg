\* Three launches at the same time; an abstract socket; signals, kills and failing calls.
CONSTANTS
    Procs = {p1, p2, p3}
    Inodes = {i1, i2, i3}
    None = None
    MaxRetries = 2
    MaxCrashes = 0
    Abstract = TRUE
    Signals = TRUE
    Faults = TRUE
SPECIFICATION Spec
INVARIANTS
    OneWatcher
    PidFileNamesWatcher
SYMMETRY Symmetry
\* All launches may have ended.
CHECK_DEADLOCK FALSE
