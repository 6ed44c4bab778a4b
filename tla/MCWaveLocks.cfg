\* As many threads as calls: the limiter is not saturated.
CONSTANTS
    sweep1 = sweep1
    sweep2 = sweep2
    query1 = query1
    query2 = query2
    Call = {sweep1, sweep2, query1, query2}
    Paths <- MCPaths
    Fsdb = {1, 2}
    Background = {sweep1, sweep2}
    MaxThreads = 4
    None = None
SPECIFICATION FairSpec
CHECK_DEADLOCK FALSE
INVARIANTS
    ParserExclusive
    LocksOrdered
PROPERTIES
    PreemptsOnlyHolders
    InteractiveServed
