\* Every component with the bounds that its interesting cases need.
CONSTANTS
    NULL = NULL
    NUM = NUM
    RqMaxCalls = 3
    RqPages <- MCPages
    ChainLength = 2
    ChainMaxOut = 1
    ChainInis <- MCChainInis
    ApMaxCalls = 3
    AttrKeys <- MCKeys
    AttrMatches <- MCMatches
    AttrDests = {"event", "log"}
    AttrMaxRules = 3
    AttrMaxAdds = 4
    AttrMaxAddRules = 1
    AttrUserLimit = 2
    NrSegments = {"a", "b", "ab", ""}
    NrMaxLength = 4
    NrMaxRules = 2
    LfWorkers = {"w1", "w2"}
    LfThreads = {"t1", "t2"}
    LfMaxConns = 2
    LfMaxStarts = 2
    TdParts = {"metrics", "slowsqls", "events", "logs", "packages", "spans", "sampling"}
    TdHash <- MCHash
    TdLimit = {0, 1, 2, 3}
    TdMaxOps <- MCMaxOps
    XMaxCalls = 4
    XModes = {"dt", "cat", "off"}
    GzHandles = {1, 2}
    GzMaxRequests = 2
    GzMaxClients = 2
    GzMaxSteps = 3
    HeapKeys = {1, 2, 3}
    HeapBounds = {0, 2, 6}
    HeapMaxSize = 8
INIT MCInit
NEXT MCNext
INVARIANTS
    ReportIsFaithful
    SecurityHolds
    OneLoader
    ChainIsOneTrace
    ApiKeepsItsWord
    AttributesFollowRules
    
    ProcessesAreApart
    CollectionsKeepTheBest
    
PROPERTY HeapIsPriorityBag
\* A request ends, and the components stop at their bounds.
CHECK_DEADLOCK FALSE
