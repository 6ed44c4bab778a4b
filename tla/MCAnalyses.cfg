SPECIFICATION AnalysesSpec
CONSTANTS
    FsPerPs = 2
    ObRows <- MCObRows
    ObEnd = 2
    ObWindows <- MCObWindows
    ObInstants <- MCObInstants
    ObNamespaces = {n1, n2}
    ObMaxEvents = 6
    ObMaxBytes = 8
    ObMaxCalls = 4
    ObNothing = ObNothing
    CyFs = 2
    CySpan = 1
    CyMaxWindows = 3
    TxPending = 2
    TxEarly = 2
    TxStateBytes = 19
    TxMaxEdges = 5
    TxNone = TxNone
    ThSignals = {"s", "u", "v", "k"}
    ThRoot = "s"
    ThDeps <- MCThDeps
    ThUnknown = {"s", "u", "v"}
    ThMaxNodes = 5
    ThMaxDepth = 2
    ThMaxRestarts = 3
    ThMaxTargets = 2
    ThMaxChanges = 2
    ThNothing = ThNothing
    HsMaxWait = 1
    HsMaxFindings = 2
    HsMaxEdges = 5
    WvNumbers = {0, 1}
INVARIANTS
    InspectTrue
    PropagationTrue
    ComparisonTrue
    ObservationsTrue
    QueryTrue
    PathTrue
    CyclesTrue
    
    VerdictTrue
    SingleProvenance
CHECK_DEADLOCK FALSE
