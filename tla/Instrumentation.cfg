\* Every component with the bounds that its interesting cases need.
CONSTANTS
    NULL = NULL
    NUM = NUM
    XcFunctions = {"plain", "own", "worker", "command", "handler"}
    XcMaxCalls = 3
    XcMaxTxns = 3
    XcNesting = 3
    XcFiles = {"includes/common.inc", "illuminate/foundation/application.php", "monolog/logger.php", "vendor/autoload.php", "wp-includes/version.php", "predis/client.php"}
    HkMaxCalls = 3
    HkNesting = 3
    UfFunctions <- MCFunctions
    UfNames <- MCNames
    UfIndexSize = 2
    UfMaxAsks = 2
    UfMaxDeclared = 2
    UfMaxRequests = 2
    FnTable <- MCFnTable
    DsHandles = {1, 2, 3}
    DsMaxCalls = 4
    PrHandles = {1}
    PrMaxSteps = 5
    SegContexts = {"a"}
    SegMaxStarts = 3
    SegMaxClock = 3
    SegSpanLimit = 3
    SegTraceLimit = 3
    IniTexts = {"", "0", "1", "-2", "text", "license", "account", "user:pw@proxy", "500", "2000", "200000", "4294967297", "apdex_f", "raw", "laravel", "info", "all_callbacks", "plugin_callbacks", "threshold", "always_on", "default", "curl,text", "debug_dt"}
    HeapKeys = {}
    HeapBounds = {}
    HeapMaxSize = 0
INIT MCInit
NEXT MCNext
INVARIANTS
    CallsAreBalanced
    
    FnReachesOriginal
    QueriesAreRecorded
    
    SettingsHold
\* A request ends, and the components stop at their bounds.
CHECK_DEADLOCK FALSE
