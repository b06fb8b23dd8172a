\* Payloads overlap, are split from three events on, fail and are merged; with
\* four events for three places sampling happens.
CONSTANTS
    e1 = e1
    e2 = e2
    e3 = e3
    e4 = e4
    Events = {e1, e2, e3, e4}
    Priority <- MCPriority
    Cap = 3
    Limit = 2
    Payloads = {p1, p2}
    SplitAt = 3
SPECIFICATION Spec
INVARIANTS
    HighestKept
    OnePlace
    SeenAddsUp
    AttemptsLimited
SYMMETRY Symmetry
