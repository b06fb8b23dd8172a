\* Any delay: attempts pile up, events and replies come late.
CONSTANTS
    Keys = {k1, k2}
    Apps = {a1, a2}
    Runs = {r1, r2}
    None = None
    AppLimit = 1
    MaxAttempts = 2
    MaxPayloads = 1
    AppTimeout = TRUE
SPECIFICATION Spec
INVARIANTS
    ReplyNamesLiveRun
    LiveRunsHaveTriggers
    WithinAppLimit
    OneRunPerApp
PROPERTY DisconnectIsPermanent
SYMMETRY Symmetry
\* Nothing need happen once the bound on run ids is used up.
CHECK_DEADLOCK FALSE
