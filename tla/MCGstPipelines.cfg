SPECIFICATION Spec
INVARIANTS
    NoPipelineLost
    PlayerOutlivesPush
PROPERTIES
    NothingLeftPlaying
    DestroyedUnlessQuitLost
CHECK_DEADLOCK FALSE
