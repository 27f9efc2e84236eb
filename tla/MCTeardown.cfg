SPECIFICATION Spec
CONSTANT MaxRunning = 2
INVARIANTS
    TypeOK
    OnlyOpenOutlivesStop
    ContextOutlivesCallbacks
    StalePushOverAtLock
PROPERTIES
    StopReturnsUnlessBlocked
    HandlersEndUnlessInverted
CHECK_DEADLOCK FALSE
