\* Two cycles and the last one overlap, in every mode.
CONSTANTS
    Cycles = {c1, c2}
    Exit = Exit
    None = None
    Data = {d1, d2}
SPECIFICATION FairSpec
INVARIANTS
    CyclesAreOrdered
PROPERTY LockIsReleased
\* CleanExit may have returned.
CHECK_DEADLOCK FALSE
