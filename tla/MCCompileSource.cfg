\* Three calls over two keys: enough for a creator, a joiner and a later call
\* that finds the session, an orphaned flight or nothing, on the same key or
\* beside an independent one.
CONSTANTS
    Request = {r1, r2, r3}
    Key = {k1, k2}
    None = None
SPECIFICATION FairSpec
CHECK_DEADLOCK FALSE
INVARIANTS
    NoUseAfterClose
    NoRetainedText
    NoCancelledIndexLeased
    OneIndexPerKey
PROPERTIES
    AnsweredAndDropped
    ImplementsSharedLease
