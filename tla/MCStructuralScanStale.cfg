CONSTANTS
    c1 = c1
    c2 = c2
    Call = {c1, c2}
    Hierarchy = {h1}
    Option = {"all", "some"}
    Plan <- MCPlan
    Bytes <- MCBytes
    MaxEntries = 2
    MaxBytes = 2
    MaxEdits = 1
    None = None
SPECIFICATION FairSpec
INVARIANT
    CachedMatchesIdentity
CHECK_DEADLOCK FALSE
