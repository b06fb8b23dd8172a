\* Agents keep asking.
CONSTANTS
    Keys = {k1}
    Apps = {a1, a2}
    Runs = {r1, r2}
    None = None
    AppLimit = 1
    MaxAttempts = 2
    MaxPayloads = 1
    AppTimeout = TRUE
SPECIFICATION FairSpec
PROPERTY UnknownIsTried
\* Nothing need happen once the bound on run ids is used up.
CHECK_DEADLOCK FALSE
