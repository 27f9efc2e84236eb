SPECIFICATION Spec
CONSTANTS
    Threads = {t1, t2, t3}
    Functions = {f1, f2}
    Null = null
    Stores = TRUE
    MaxCalls = 3
INVARIANTS
    OnlyCurrentRuns
    HandledOnce
    LatestHandled
CHECK_DEADLOCK FALSE
