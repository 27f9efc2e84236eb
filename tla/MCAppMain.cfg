SPECIFICATION Spec
CONSTANTS
    MaxLines = 2
    MaxSignals = 2
INVARIANTS
    StartsConfigured
    ConsoleEndsFirst
PROPERTY ExitsUnlessHandlerHangs
CHECK_DEADLOCK FALSE
