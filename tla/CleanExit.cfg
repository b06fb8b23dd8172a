\* The daemon is stopped.
CONSTANTS
    Cycles = {c1}
    Exit = Exit
    None = None
    Data = {d1}
SPECIFICATION FairSpec
PROPERTY ExitReturns
\* CleanExit may have returned.
CHECK_DEADLOCK FALSE
