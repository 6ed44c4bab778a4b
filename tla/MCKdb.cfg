CONSTANTS
    KdbCall = {k1, k2}
    MaxVersion = 2
SPECIFICATION MCKdbSpec
INVARIANTS
    AnswerIsWhole
CHECK_DEADLOCK FALSE
